---- MODULE Spec2Model ----
(***************************************************************************)
(* Sequence subsystem: the local sequence access method (seqlocalam.c),    *)
(* its WAL replay (seqlocalxlog.c) and the session cache of sequence.c.    *)
(***************************************************************************)
EXTENDS Integers, Sequences, FiniteSets, TLC

\* ---------------------------------------------------------------- bounds
\* Strategy-level next calls explored per behaviour.
MaxCalls == 6
\* Checkpoints started per behaviour.
MaxCheckpoints == 2
\* Upper limit of the small value domain (sequences that reach their limit).
SmallMax == 3
\* Upper limit of sequences that stay far from their limit.
FarMax == 200
\* Upper limit of the sequences used by the session runs.
SessionMax == 3
\* ResetSequence calls per sequence.
MaxResets == 1
\* Largest of the small cache sizes.
MaxCache == 5
\* Cache size of the sequences whose pre-fetched values are followed.
CacheMax == 3
\* next calls made on the snowflake sequence in one behaviour.
MaxSnowCalls == 4097
\* Largest wall-clock reading, in milliseconds.
MaxClock == 3
\* The first MaxTracked values returned are kept and compared with every later one.
MaxTracked == 3
\* next calls followed on a snowflake sequence that has just been created.
MaxFirstCalls == 2
\* Storage files a sequence is given by CREATE and rewriting ALTER SEQUENCE.
MaxAlters == 2
\* Options given in one CREATE or ALTER SEQUENCE statement.
MaxOptions == 1
\* Largest value of the sequence that transaction blocks rewrite.
MaxXactValue == 3
\* Storage files a snowflake sequence is given by its init and reset callbacks.
MaxSnowFiles == 2
\* Strategy calls in a run of set and next calls.
MaxSetCalls == 3
\* Largest LSN of the records and pages in the replay runs.
MaxRedoLsn == 2
\* Largest value of the integer type that stands for int64 in the overflow runs.
MaxInt64 == 3

\* ------------------------------------------------------- program constants
SEQ_LOCAL_LOG_VALS == 32
SEQ_LOCAL_MAGIC == 5911
SNOWFLAKE_MAGIC == 1
FirstOffsetNumber == 1

\* snowflake.c
SNOWFLAKE_COUNTER_MASK == 4095
SNOWFLAKE_COUNTER_SHIFT == 0
SNOWFLAKE_MACHINE_ID_MASK == 1023
SNOWFLAKE_MACHINE_ID_SHIFT == 12
SNOWFLAKE_TIMESTAMP_SHIFT == 22
\* SNOWFLAKE_TIMESTAMP_MASK is 0x1FFFFFFFFFF: the low 41 bits
SNOWFLAKE_TIMESTAMP_BITS == 41
\* width of int64 and uint64
Int64Bits == 64
PG_INT16_MAX == 32767
\* The int64 of the sequence parameters is the integer range of the model
\* checker: PG_INT64_MAX and PG_INT64_MIN are its largest and smallest values.
PG_INT64_MAX == 2147483647
PG_INT64_MIN == (0 - PG_INT64_MAX) - 1
snowflake_machine_id == 1

\* relpersistence values of pg_class
RELPERSISTENCE_PERMANENT == "p"
RELPERSISTENCE_UNLOGGED == "u"
RELPERSISTENCE_TEMP == "t"

\* absence of a value (no previous result): the empty sequence; <<v>> holds v
NoVal == <<>>

\* The sequences that exist are the domain of seqform (and of every other
\* per-sequence variable); sessions are the domain of elm.
VARIABLES
    seqform,        \* per sequence: pg_sequence row (incby, minv, maxv, start, cache, cycle)
    relpersistence, \* per sequence: pg_class.relpersistence
    relfilenode,    \* per sequence: pg_class.relfilenode, the current storage file
    dropped,        \* per sequence: its pg_class row is gone (DROP SEQUENCE committed)
    xact,           \* per session: XactReadOnly and IsInParallelMode() of its transaction
    page,           \* per sequence: tuple in the shared buffer of page 0
    pageLSN,        \* per sequence: LSN of the buffer page
    wal,            \* WAL records of the local AM, LSN = position in the sequence
    RedoRecPtr,     \* redo pointer of the checkpoint in progress or last completed
    ckpt,           \* checkpointer position: "idle", "started", "synced"
    ctlRedo,        \* redo pointer of the last completed checkpoint (control file)
    flushedLSN,     \* WAL is durable up to this LSN
    diskPage,       \* per sequence: page 0 as last written to disk (tuple, lsn)
    elm,            \* per session, per sequence: SeqTableData entry of seqhashtab
    last_used_seq,  \* per session: sequence of the last nextval, 0 if none
    afterReset,     \* per sequence: reset since the last nextval or setval on it
    hist,           \* per session: sequence and values of its latest nextval calls
    covered,        \* per WAL record: <<largest value handed out under it>> or <<>>
    crash,          \* what the last crash left: phase, replayed prefix, page before
    nCalls,         \* strategy calls made (bounded by MaxCalls)
    nCkpt,          \* checkpoints started (bounded by MaxCheckpoints)
    lastRes,        \* per sequence: <<result of the previous successful AmNextval>> or <<>>
    sequenceam,     \* the sequence AM routine of the relation, and the last load or call
    returned,       \* <<sequence, value>> of every value nextval has returned where that is followed
    lock,           \* buffer content locks held on page 0, and each session's strategy call in progress
    snow,           \* snowflake sequence: tuple (count, is_called), wall clock, values returned
    sinceLog,       \* nextval calls on WAL-logged sequences since the last WAL record of one
    ev              \* outcome of the last operation

vars == <<seqform, relpersistence, relfilenode, dropped, xact, page, pageLSN, wal, RedoRecPtr, ckpt,
          ctlRedo, flushedLSN, diskPage, elm, last_used_seq, afterReset, hist, covered,
          crash, nCalls, nCkpt, lastRes, snow, sequenceam, sinceLog, lock, returned, ev>>

defVars == <<seqform, relpersistence, relfilenode>>
envVars == <<dropped, xact>>
ckptVars == <<RedoRecPtr, ckpt, ctlRedo, nCkpt>>
diskVars == <<flushedLSN, diskPage>>
sessVars == <<elm, last_used_seq, afterReset, hist>>

\* ------------------------------------------------------------ local AM
\* RelationNeedsWAL(rel)
RelationNeedsWAL(persistence) == persistence = RELPERSISTENCE_PERMANENT

\* Tuple of a local sequence relation.
SeqTuple(lv, lc, ic) == [last_value |-> lv, log_cnt |-> lc, is_called |-> ic]

\* The MAXVALUE / MINVALUE test of the fetch loop.
LimitReachedOffByOne(next, incby, maxv, minv) ==
    IF incby > 0
    THEN (maxv >= 0 /\ next >= maxv - incby) \/ (maxv < 0 /\ next + incby >= maxv)
    ELSE (minv < 0 /\ next <= minv - incby) \/ (minv >= 0 /\ next + incby <= minv)

LimitReachedNoIncr(next, incby, maxv, minv) ==
    IF incby > 0 THEN next > maxv ELSE next < minv

LimitReached(next, incby, maxv, minv) ==
    IF incby > 0
    THEN (maxv >= 0 /\ next > maxv - incby) \/ (maxv < 0 /\ next + incby > maxv)
    ELSE (minv < 0 /\ next < minv - incby) \/ (minv >= 0 /\ next + incby < minv)

\* Value a cycling sequence restarts from.
CycleValueSwapped(incby, maxv, minv) == IF incby > 0 THEN maxv ELSE minv

CycleValue(incby, maxv, minv) == IF incby > 0 THEN minv ELSE maxv

\* The "while (fetch)" loop of seq_local_nextval.  st holds the loop's locals;
\* st.error is set where the code raises the limit error.
RECURSIVE FetchLoop(_, _)
FetchLoop(st, f) ==
    IF st.fetch = 0 THEN st
    ELSE IF LimitReached(st.next, f.incby, f.maxv, f.minv) /\ st.rescnt > 0 THEN st
    ELSE IF LimitReached(st.next, f.incby, f.maxv, f.minv) /\ ~f.cycle
         THEN [st EXCEPT !.error = TRUE]
    ELSE LET nx == IF LimitReached(st.next, f.incby, f.maxv, f.minv)
                   THEN CycleValue(f.incby, f.maxv, f.minv)
                   ELSE st.next + f.incby
             take == st.rescnt < f.cache
         IN  FetchLoop([fetch  |-> st.fetch - 1,
                        next   |-> nx,
                        rescnt |-> IF take THEN st.rescnt + 1 ELSE st.rescnt,
                        log    |-> IF take THEN st.log - 1 ELSE st.log,
                        last   |-> IF take THEN nx ELSE st.last,
                        result |-> IF take /\ st.rescnt = 0 THEN nx ELSE st.result,
                        error  |-> FALSE], f)

\* Whether the call emits a WAL record and pre-fetches SEQ_LOCAL_LOG_VALS more.
NeedLogEager(seq, fetch, lsn, redoptr) ==
    \/ seq.log_cnt <= fetch \/ ~seq.is_called
    \/ lsn <= redoptr

\* seq_local_nextval that fetches more only for a tuple not yet called or
\* after a checkpoint.
NeedLogOnlyUncalled(seq, fetch, lsn, redoptr) == ~seq.is_called \/ lsn <= redoptr

NeedLogNoCheckpoint(seq, fetch, lsn, redoptr) == seq.log_cnt < fetch \/ ~seq.is_called

NeedLogStrictRedo(seq, fetch, lsn, redoptr) ==
    \/ seq.log_cnt < fetch \/ ~seq.is_called
    \/ lsn < redoptr

NeedLog(seq, fetch, lsn, redoptr) ==
    \/ seq.log_cnt < fetch \/ ~seq.is_called
    \/ lsn <= redoptr

\* Tuple saved in the WAL record of a next call.
LoggedTupleCurrent(next, last) == SeqTuple(last, 0, TRUE)

LoggedTupleUncalled(next, last) == SeqTuple(next, 0, FALSE)

LoggedTuple(next, last) == SeqTuple(next, 0, TRUE)

\* Tuple a next call leaves on the page.
FinalTupleNoLog(last, log) == SeqTuple(last, 0, TRUE)

\* seq_local_nextval that leaves the page one value behind the last one fetched.
FinalTupleBehind(last, log) == SeqTuple(last - 1, log, TRUE)

FinalTuple(last, log) == SeqTuple(last, log, TRUE)

\* The locals of seq_local_nextval when it enters the fetch loop.
FetchStart(seq, lsn, redoptr, f) ==
    LET rescnt0 == IF seq.is_called THEN 0 ELSE 1
        fetch0  == IF seq.is_called THEN f.cache ELSE f.cache - 1
        logit0  == NeedLog(seq, fetch0, lsn, redoptr)
        fetch1  == IF logit0 THEN fetch0 + SEQ_LOCAL_LOG_VALS ELSE fetch0
        log1    == IF logit0 THEN fetch0 + SEQ_LOCAL_LOG_VALS ELSE seq.log_cnt
    IN  [fetch |-> fetch1, next |-> seq.last_value, rescnt |-> rescnt0, log |-> log1,
         last |-> seq.last_value, result |-> seq.last_value, error |-> FALSE]

\* The sums and differences the limit test of the fetch loop computes for next;
\* C evaluates && and || left to right and stops once the result is known.
LimitOperandsSum(next, incby, maxv, minv) == {next + incby}

LimitOperands(next, incby, maxv, minv) ==
    IF incby > 0
    THEN IF maxv >= 0 THEN {maxv - incby} ELSE {next + incby}
    ELSE IF minv < 0 THEN {minv - incby} ELSE {next + incby}

\* Every sum and difference one pass of the loop computes from next.
StepOperands(next, f) ==
    LimitOperands(next, f.incby, f.maxv, f.minv)
        \cup (IF LimitReached(next, f.incby, f.maxv, f.minv) THEN {} ELSE {next + f.incby})

\* Every sum and difference the fetch loop of one call computes: those of the
\* pass that follows n passes, for each n below the fetch count.
LoopOperands(seq, lsn, redoptr, f) ==
    LET st0 == FetchStart(seq, lsn, redoptr, f)
    IN  UNION { StepOperands(FetchLoop([st0 EXCEPT !.fetch = n], f).next, f) :
                  n \in 0..(st0.fetch - 1) }

\* seq_local_nextval up to the critical section: what the call returns, writes
\* and logs for the tuple seq read under the buffer lock.
SeqLocalNextval(seq, lsn, redoptr, persistence, f) ==
    LET fetch0  == IF seq.is_called THEN f.cache ELSE f.cache - 1
        logit0  == NeedLog(seq, fetch0, lsn, redoptr)
        st      == FetchLoop(FetchStart(seq, lsn, redoptr, f), f)
        log     == st.log - st.fetch
    IN  [error  |-> st.error,
         result |-> st.result,
         last   |-> st.last,
         logit  |-> logit0 /\ RelationNeedsWAL(persistence),
         rec    |-> LoggedTuple(st.next, st.last),
         tuple  |-> FinalTuple(st.last, log)]

\* PageInit: an empty page, its special area zeroed.
PageInit == [magic |-> 0, items |-> NoVal, lsn |-> 0]

\* PageAddItem at the offset given: the page with the item there, or NoVal
\* (InvalidOffsetNumber) when the offset is past the first free slot.
PageAddItem(pg, item, offsetNumber) ==
    IF offsetNumber > Len(pg.items) + 1 THEN NoVal
    ELSE <<[pg EXCEPT !.items = SubSeq(@, 1, offsetNumber - 1) \o <<item>>
                                  \o SubSeq(@, offsetNumber, Len(@))]>>

\* seq_local_redo that adds the record's tuple to the page it finds.
seq_local_redoInPlace(pg, rec, lsn) ==
    LET added == PageAddItem(pg, rec.tuple, FirstOffsetNumber)
    IN  [added[1] EXCEPT !.lsn = lsn]

\* seq_local_redo on the whole page: the new contents are built in a local
\* page (initialised, magic word, the record's tuple at the first offset, the
\* record's LSN) and copied over the buffer, whatever it held.
seq_local_redo(pg, rec, lsn) ==
    LET localpage == [PageInit EXCEPT !.magic = SEQ_LOCAL_MAGIC]
        added     == PageAddItem(localpage, rec.tuple, FirstOffsetNumber)
    IN  [added[1] EXCEPT !.lsn = lsn]

\* seq_local_redo: replay always re-initialises the page and installs the
\* record's tuple at the first slot, then sets the page LSN.
SeqLocalRedo(pg, rec, lsn) == [tuple |-> rec.tuple, lsn |-> lsn]

\* Replay of the records at LSNs from..to of log w for sequence q, from page pg.
RECURSIVE Replay(_, _, _, _, _)
Replay(pg, w, q, from, to) ==
    IF from > to THEN pg
    ELSE Replay(IF w[from].rel = q THEN SeqLocalRedo(pg, w[from], from) ELSE pg,
                w, q, from + 1, to)

\* A WAL record of the local AM: relation locator and tuple.
XlSeqLocalRec(q, file, tuple) == [rel |-> q, file |-> file, tuple |-> tuple]

\* ------------------------------------------------------------- events
NoEvent == [op |-> "init", s |-> 0, q |-> 0, status |-> "ok", result |-> 0, last |-> 0,
            prev |-> NoVal, logit |-> FALSE, amcall |-> FALSE, period |-> 0,
            arg |-> 0, iscalled |-> FALSE, fresh |-> FALSE, hadCache |-> FALSE,
            afterSet |-> NoVal, afterUnset |-> NoVal, am |-> NoVal,
            before |-> SeqTuple(0, 0, FALSE), options |-> NoVal]

\* A session that has called nextval on nothing yet.
NoHist(seqs) == [seq |-> 0, fromCache |-> FALSE, val |-> [q \in seqs |-> NoVal],
                 own |-> [q \in seqs |-> NoVal],
                 am |-> [q \in seqs |-> NoVal]]

\* The history h once session s holds the entry e for sequence q: am[q], the
\* <<result, last, cache>> of the strategy call whose pre-fetched values the
\* session holds, is forgotten when the entry holds none.
HistAfter(h, s, q, e) == IF e.cached = e.last THEN [h EXCEPT ![s].am[q] = NoVal] ELSE h

\* A transaction that is neither read-only nor in parallel mode.
NormalXact == [readOnly |-> FALSE, parallel |-> FALSE, block |-> FALSE, undo |-> {}]

\* <<v>> when the operation before this one of session s on sequence q was the
\* same session's successful setval(q, v, true), else <<>>.
AfterSet(s, q) ==
    IF ev.op = "setval" /\ ev.status = "ok" /\ ev.iscalled /\ ev.s = s /\ ev.q = q
    THEN <<ev.arg>> ELSE NoVal

\* <<v, c>> when the operation before this one of session s on sequence q was the
\* same session's successful setval(q, v, false), c telling whether the session
\* held pre-fetched values when it called setval; else <<>>.
AfterUnset(s, q) ==
    IF ev.op = "setval" /\ ev.status = "ok" /\ ~ev.iscalled /\ ev.s = s /\ ev.q = q
    THEN <<ev.arg, ev.hadCache>> ELSE NoVal

NoCrash == [phase |-> "up", prefix |-> 0, redo |-> 0, durable |-> NoVal, before |-> SeqTuple(0, 0, FALSE)]

Max2(a, b) == IF a >= b THEN a ELSE b

\* <<largest of the values held by a and b>>, each <<>> or <<v>>.
MaxOpt(a, b) == IF a = <<>> THEN b ELSE IF b = <<>> THEN a ELSE <<Max2(a[1], b[1])>>

RECURSIVE MaxCovered(_, _)
MaxCovered(c, n) == IF n = 0 THEN <<>> ELSE MaxOpt(c[n], MaxCovered(c, n - 1))

\* --------------------------------------------------- sequence definitions
SeqForm(incby, minv, maxv, start, cache, cycle) ==
    [incby |-> incby, minv |-> minv, maxv |-> maxv, start |-> start,
     cache |-> cache, cycle |-> cycle]

\* Definitions accepted by init_params: min < max, start within, cache >= 1.
ValidForm(f) ==
    /\ f.minv < f.maxv /\ f.start >= f.minv /\ f.start <= f.maxv
    /\ f.cache >= 1 /\ f.incby # 0

StrategyForms ==
    { f \in { SeqForm(k, r[1], r[2], s, c, cy) :
                k \in {1, 2, -1}, r \in {<<1, 3>>, <<1, FarMax>>, <<0 - SmallMax, -1>>},
                s \in {0 - SmallMax, -2, -1, 1, 2, 3, FarMax},
                c \in {1, 3}, cy \in BOOLEAN } : ValidForm(f) }

\* Non-cycling definitions with the default start, for the crash runs: some
\* reach their limit within the pre-logged values, some stay far from it.
CrashForms ==
    { f \in { SeqForm(k, r[1], r[2], IF k > 0 THEN r[1] ELSE r[2], c, FALSE) :
                k \in {1, 2, -1}, r \in {<<1, SmallMax + 2>>, <<1, FarMax>>},
                c \in {1, 20} } : ValidForm(f) }

\* No session has touched any sequence: seqhashtab is empty.
NoEntry == [found |-> FALSE, filenumber |-> 0, last_valid |-> FALSE, last |-> 0,
            cached |-> 0, increment |-> 0]

\* State after DefineSequence of the sequences seqs, with definitions from
\* forms and persistences from pers, before any of the sessions sess has touched
\* them: seq_local_init installs (start, log_cnt 0, not called) in file 1 and
\* fill_seq_fork_with_data logs the tuple; the creating transactions have
\* committed, so the records are durable and the pages written.
RECURSIVE InitWal(_, _, _)
InitWal(seqs, pers, pg) ==
    IF seqs = {} THEN <<>>
    ELSE LET q == CHOOSE x \in seqs : \A y \in seqs : x >= y
             w == InitWal(seqs \ {q}, pers, pg)
         IN  IF RelationNeedsWAL(pers[q]) THEN Append(w, XlSeqLocalRec(q, 1, pg[q]))
                                          ELSE w

InitLSN(w, q) == IF \E i \in 1..Len(w) : w[i].rel = q
                 THEN CHOOSE i \in 1..Len(w) : w[i].rel = q ELSE 0

InitBuffers(sess, seqs, forms, pers) ==
    /\ seqform \in [seqs -> forms]
    /\ relpersistence \in [seqs -> pers]
    /\ relfilenode = [q \in seqs |-> 1]
    /\ dropped = [q \in seqs |-> FALSE]
    /\ xact = [s \in sess |-> NormalXact]
    /\ page = [q \in seqs |-> SeqTuple(seqform[q].start, 0, FALSE)]
    /\ wal = InitWal(seqs, relpersistence, page)
    /\ pageLSN = [q \in seqs |-> InitLSN(wal, q)]
    /\ RedoRecPtr = 0
    /\ ckpt = "idle"
    /\ ctlRedo = 0
    /\ flushedLSN = Len(wal)
    /\ elm = [s \in sess |-> [q \in seqs |-> NoEntry]]
    /\ last_used_seq = [s \in sess |-> 0]
    /\ afterReset = [q \in seqs |-> FALSE]
    /\ hist = [s \in sess |-> NoHist(seqs)]
    /\ covered = [i \in 1..Len(wal) |-> <<>>]
    /\ crash = NoCrash
    /\ nCalls = 0
    /\ nCkpt = 0
    /\ lastRes = [q \in seqs |-> NoVal]
    /\ sinceLog = 0
    /\ ev = NoEvent

InitLocal(sess, seqs, forms, pers) ==
    /\ InitBuffers(sess, seqs, forms, pers)
    /\ diskPage = [q \in seqs |-> [tuple |-> page[q], lsn |-> pageLSN[q]]]

\* snowflake_sequenceam_init: the int16 counter of a new snowflake relation.
Int16(v) == ((v + PG_INT16_MAX + 1) % (2 * (PG_INT16_MAX + 1))) - (PG_INT16_MAX + 1)

\* x & SNOWFLAKE_COUNTER_MASK, the mask being 2^12 - 1.
CounterBits(x) == x % (SNOWFLAKE_COUNTER_MASK + 1)

\* The relation of a snowflake sequence as DefineRelation leaves it: of the
\* persistence the statement gave, without a file the AM has filled, and no
\* WAL record written by the AM.
SnowflakeRel(persistence) ==
    [relpersistence |-> persistence, files |-> 0, xlog |-> NoVal, op |-> "none",
     asserted |-> TRUE]

\* RelationSetNewRelfilenumber: a new storage file of the given persistence.
RelationSetNewRelfilenumber(rel, persistence) ==
    [rel EXCEPT !.relpersistence = persistence, !.files = @ + 1]

\* fill_snowflake_fork that logs every fork it fills.
fill_snowflake_forkLogged(forkNum) == <<[rmgr |-> "generic", fork |-> forkNum]>>

\* fill_snowflake_fork: the WAL records of filling one fork, a full-page image
\* through generic WAL for the init fork only.
fill_snowflake_fork(forkNum) ==
    IF forkNum = "init" THEN <<[rmgr |-> "generic", fork |-> forkNum]>> ELSE NoVal

\* fill_snowflake: the main fork, then the init fork (created, its creation
\* logged, filled).
fill_snowflake(rel) ==
    [rel EXCEPT !.asserted = @ /\ rel.relpersistence = RELPERSISTENCE_UNLOGGED,
                !.xlog = @ \o fill_snowflake_fork("main")
                           \o <<[rmgr |-> "smgr", fork |-> "init"]>>
                           \o fill_snowflake_fork("init")]

\* FlushRelationBuffers at the end of fill_snowflake: the page just filled is
\* written out, which leaves the buffer clean and the tuple on disk.
FlushRelationBuffers(count, is_called) ==
    [dirty |-> FALSE, disk |-> [count |-> count, is_called |-> is_called]]

\* snowflake_sequenceam_init on the relation rel.
SnowflakeInitRel(rel, last_value, is_called) ==
    [count |-> CounterBits(Int16(last_value)), is_called |-> is_called,
     now |-> 0, calls |-> 0, wraps |-> 0, start |-> CounterBits(Int16(last_value)),
     onlyNext |-> TRUE, issued |-> {}, id |-> NoVal, result |-> NoVal,
     slept |-> FALSE, dup |-> FALSE,
     machine_id |-> snowflake_machine_id, decoded |-> NoVal,
     buf |-> FlushRelationBuffers(CounterBits(Int16(last_value)), is_called),
     rel |-> [fill_snowflake(RelationSetNewRelfilenumber(rel, RELPERSISTENCE_UNLOGGED))
                EXCEPT !.op = "init"]]

SnowflakeInit(last_value, is_called) ==
    SnowflakeInitRel(SnowflakeRel(RELPERSISTENCE_PERMANENT), last_value, is_called)

\* No sequence AM routine has been loaded for the relation.
NoRoutine ==
    [rd_sequenceam |-> NoVal, op |-> "none", handle |-> NoVal, status |-> "ok",
     USE_ASSERT_CHECKING |-> TRUE]

\* No strategy call is in progress and no buffer content lock is held.
NoLocks == [held |-> {}, magic |-> <<>>, proc |-> <<>>]

InitSeqs(sess, seqs, forms, pers) ==
    /\ InitLocal(sess, seqs, forms, pers)
    /\ snow = SnowflakeInit(1, FALSE)
    /\ sequenceam = NoRoutine
    /\ lock = NoLocks
    /\ returned = {}

InitStrategy ==
    InitSeqs({1}, {1}, StrategyForms, {RELPERSISTENCE_PERMANENT, RELPERSISTENCE_UNLOGGED})

InitCrash == InitSeqs({1}, {1}, CrashForms, {RELPERSISTENCE_PERMANENT})

\* Effect of a successful seq_local_nextval r on the page and the WAL.
AmApply(q, r) ==
    /\ wal' = IF r.logit THEN Append(wal, XlSeqLocalRec(q, relfilenode[q], r.rec))
                         ELSE wal
    /\ pageLSN' = IF r.logit THEN [pageLSN EXCEPT ![q] = Len(wal')] ELSE pageLSN
    /\ page' = [page EXCEPT ![q] = r.tuple]
    /\ covered' = IF Len(wal') = 0 THEN covered
                  ELSE LET c == IF r.logit THEN Append(covered, <<>>) ELSE covered
                       IN  [c EXCEPT ![Len(c)] = MaxOpt(@, <<r.last>>)]

\* A strategy next call (seq_local_nextval) on sequence q by any session,
\* atomic under the exclusive buffer lock.  After a crash the run is followed
\* up to the first call on the recovered page.
AmNextval(q) ==
    /\ nCalls < MaxCalls
    /\ crash.phase \in {"up", "recovered"}
    /\ LET r == SeqLocalNextval(page[q], pageLSN[q], RedoRecPtr, relpersistence[q],
                                seqform[q])
           e == [NoEvent EXCEPT !.op = "next", !.q = q, !.prev = lastRes[q],
                                !.before = page[q], !.amcall = TRUE]
       IN  IF r.error
           THEN /\ ev' = [e EXCEPT !.status = "limit"]
                /\ UNCHANGED <<page, pageLSN, wal, lastRes, covered>>
           ELSE /\ AmApply(q, r)
                /\ lastRes' = [lastRes EXCEPT ![q] = <<r.result>>]
                /\ ev' = [e EXCEPT !.result = r.result, !.last = r.last,
                                   !.logit = r.logit]
    /\ nCalls' = nCalls + 1
    /\ crash' = IF crash.phase = "up" THEN crash ELSE [crash EXCEPT !.phase = "first"]
    /\ UNCHANGED <<returned, lock, sequenceam, defVars, snow, envVars, ckptVars, diskVars, sessVars, sinceLog>>

\* A checkpoint starts: the redo pointer moves to the current insert position.
CheckpointStart ==
    /\ ckpt = "idle"
    /\ nCkpt < MaxCheckpoints
    /\ RedoRecPtr < Len(wal)
    /\ RedoRecPtr' = Len(wal)
    /\ ckpt' = "started"
    /\ nCkpt' = nCkpt + 1
    /\ UNCHANGED <<returned, lock, sequenceam, defVars, snow, envVars, page, pageLSN, wal, ctlRedo, diskVars, sessVars, covered,
                   crash, nCalls, lastRes, sinceLog, ev>>

\* The checkpoint writes every dirty buffer, WAL first.
CheckpointSync ==
    /\ ckpt = "started"
    /\ ckpt' = "synced"
    /\ diskPage' = [q \in DOMAIN page |-> [tuple |-> page[q], lsn |-> pageLSN[q]]]
    /\ flushedLSN' = Len(wal)
    /\ UNCHANGED <<returned, lock, sequenceam, defVars, snow, envVars, page, pageLSN, wal, RedoRecPtr, ctlRedo, nCkpt, sessVars,
                   covered, crash, nCalls, lastRes, sinceLog, ev>>

\* The checkpoint completes: its redo pointer becomes the start of recovery.
CheckpointEnd ==
    /\ ckpt = "synced"
    /\ ckpt' = "idle"
    /\ ctlRedo' = RedoRecPtr
    /\ flushedLSN' = Len(wal)
    /\ UNCHANGED <<returned, lock, sequenceam, defVars, snow, envVars, page, pageLSN, wal, RedoRecPtr, nCkpt, diskPage, sessVars,
                   covered, crash, nCalls, lastRes, sinceLog, ev>>

\* A commit or the WAL writer makes the WAL written so far durable.
XLogFlush ==
    /\ flushedLSN < Len(wal)
    /\ flushedLSN' = Len(wal)
    /\ UNCHANGED <<returned, lock, sequenceam, defVars, snow, envVars, page, pageLSN, wal, ckptVars, diskPage, sessVars, covered,
                   crash, nCalls, lastRes, sinceLog, ev>>

\* The buffer of sequence q is written out (eviction, background writer),
\* after the WAL up to the page's LSN.
FlushBuffer(q) ==
    /\ diskPage[q] # [tuple |-> page[q], lsn |-> pageLSN[q]]
    /\ diskPage' = [diskPage EXCEPT ![q] = [tuple |-> page[q], lsn |-> pageLSN[q]]]
    /\ flushedLSN' = Max2(flushedLSN, pageLSN[q])
    /\ UNCHANGED <<returned, lock, sequenceam, defVars, snow, envVars, page, pageLSN, wal, ckptVars, sessVars, covered, crash,
                   nCalls, lastRes, sinceLog, ev>>

\* Crash and recovery: the WAL survives up to some LSN p at or past the
\* durable point; replay starts from the pages on disk at the redo pointer of
\* the last completed checkpoint and applies every record up to p; the
\* end-of-recovery checkpoint then writes the pages.  Session state is lost.
Crash ==
    /\ crash.phase = "up"
    /\ \E p \in flushedLSN..Len(wal) :
        LET rec == [q \in DOMAIN page |-> Replay(diskPage[q], wal, q, ctlRedo + 1, p)]
        IN  /\ page' = [q \in DOMAIN page |-> rec[q].tuple]
            /\ pageLSN' = [q \in DOMAIN page |-> rec[q].lsn]
            /\ diskPage' = rec
            /\ wal' = SubSeq(wal, 1, p)
            /\ covered' = SubSeq(covered, 1, p)
            /\ RedoRecPtr' = p
            /\ ctlRedo' = p
            /\ flushedLSN' = p
            /\ crash' = [phase |-> "recovered", prefix |-> p, redo |-> ctlRedo,
                         durable |-> MaxCovered(covered, p), before |-> page[1]]
    /\ ckpt' = "idle"
    /\ elm' = [s \in DOMAIN elm |-> [q \in DOMAIN page |-> NoEntry]]
    /\ last_used_seq' = [s \in DOMAIN elm |-> 0]
    /\ ev' = [NoEvent EXCEPT !.op = "crash"]
    /\ hist' = [s \in DOMAIN elm |-> NoHist(DOMAIN page)]
    /\ UNCHANGED <<returned, lock, sequenceam, defVars, snow, envVars, nCkpt, nCalls, lastRes, sinceLog, afterReset>>

NextStrategy ==
    \/ \E q \in DOMAIN page : AmNextval(q)
    \/ CheckpointStart
    \/ CheckpointSync
    \/ CheckpointEnd

SpecStrategy == InitStrategy /\ [][NextStrategy]_vars

NextCrash ==
    \/ \E q \in DOMAIN page : AmNextval(q)
    \/ CheckpointStart
    \/ CheckpointSync
    \/ CheckpointEnd
    \/ XLogFlush
    \/ \E q \in DOMAIN page : FlushBuffer(q)
    \/ Crash

SpecCrash == InitCrash /\ [][NextCrash]_vars

\* ------------------------------------------------------- session cache
\* Storage file number no relation has.
InvalidRelFileNumber == 0

\* init_sequence: find or create the session's entry, then drop the cached
\* values when the relation's file is not the one last seen.
InitSequenceKeepCache(e, filenode) ==
    LET e1 == IF e.found THEN e
              ELSE [e EXCEPT !.found = TRUE, !.filenumber = InvalidRelFileNumber,
                             !.last_valid = FALSE, !.last = 0, !.cached = 0]
    IN  [e1 EXCEPT !.filenumber = filenode]

InitSequenceDropLast(e, filenode) ==
    LET e1 == IF e.found THEN e
              ELSE [e EXCEPT !.found = TRUE, !.filenumber = InvalidRelFileNumber,
                             !.last_valid = FALSE, !.last = 0, !.cached = 0]
    IN  IF filenode # e1.filenumber
        THEN [e1 EXCEPT !.filenumber = filenode, !.last_valid = FALSE,
                        !.last = 0, !.cached = 0]
        ELSE e1

InitSequenceLastFromCached(e, filenode) ==
    LET e1 == IF e.found THEN e
              ELSE [e EXCEPT !.found = TRUE, !.filenumber = InvalidRelFileNumber,
                             !.last_valid = FALSE, !.last = 0, !.cached = 0]
    IN  IF filenode # e1.filenumber
        THEN [e1 EXCEPT !.filenumber = filenode, !.last = e1.cached]
        ELSE e1

\* init_sequence that forgets the pre-fetched values at every call.
InitSequenceForget(e, filenode) ==
    LET e1 == IF e.found THEN e
              ELSE [e EXCEPT !.found = TRUE, !.filenumber = InvalidRelFileNumber,
                             !.last_valid = FALSE, !.last = 0, !.cached = 0]
    IN  [e1 EXCEPT !.filenumber = filenode, !.cached = e1.last]

InitSequence(e, filenode) ==
    LET e1 == IF e.found THEN e
              ELSE [e EXCEPT !.found = TRUE, !.filenumber = InvalidRelFileNumber,
                             !.last_valid = FALSE, !.last = 0, !.cached = 0]
    IN  IF filenode # e1.filenumber
        THEN [e1 EXCEPT !.filenumber = filenode, !.cached = e1.last]
        ELSE e1

\* rd_islocaltemp: a temporary sequence of the calling session (a session
\* reaches no other session's temporary relations).
RelationIsLocalTemp(q) == relpersistence[q] = RELPERSISTENCE_TEMP

\* The entry found by init_sequence belongs to an older file of the relation.
StaleEntry(e, filenode) == e.found /\ e.filenumber # filenode

\* The checks nextval_internal and do_setval make before they modify anything:
\* PreventCommandIfReadOnly unless the sequence is temporary, then
\* PreventCommandIfParallelMode.
ModifyCheckNoReadOnly(s, q) ==
    IF xact[s].parallel THEN "parallel" ELSE "ok"

ModifyCheckParallelFirst(s, q) ==
    IF xact[s].parallel THEN "parallel"
    ELSE IF ~RelationIsLocalTemp(q) /\ xact[s].readOnly THEN "readonly"
    ELSE "ok"

ModifyCheck(s, q) ==
    IF ~RelationIsLocalTemp(q) /\ xact[s].readOnly THEN "readonly"
    ELSE IF xact[s].parallel THEN "parallel"
    ELSE "ok"

\* nextval_internal that hands out the last pre-fetched value at once.
NextvalCachedSkip(e) == [e EXCEPT !.last = e.cached]

\* nextval_internal served from the session cache: the entry it leaves.
NextvalCached(e) == [e EXCEPT !.last = @ + e.increment]

\* last_used_seq after a nextval served from the session cache.
CachedLastUsedStale(lu, q) == lu

CachedLastUsed(lu, q) == q

\* nextval_internal after the strategy call returned (result, last).
NextvalSaveCachedAsLast(e, incby, result, last) ==
    [e EXCEPT !.increment = incby, !.last = last, !.cached = last, !.last_valid = TRUE]

NextvalSaveCachedPastLast(e, incby, result, last) ==
    [e EXCEPT !.increment = incby, !.last = result, !.cached = last + incby,
              !.last_valid = TRUE]

NextvalSave(e, incby, result, last) ==
    [e EXCEPT !.increment = incby, !.last = result, !.cached = last, !.last_valid = TRUE]

\* nextval_internal by session s on sequence q.
Nextval(s, q) ==
    LET e0 == InitSequence(elm[s][q], relfilenode[q])
        e  == [NoEvent EXCEPT !.op = "nextval", !.s = s, !.q = q,
                              !.fresh = afterReset[q], !.afterSet = AfterSet(s, q),
                              !.afterUnset = AfterUnset(s, q),
                              !.hadCache = (elm[s][q].last # elm[s][q].cached)]
    IN  IF ModifyCheck(s, q) # "ok"
        THEN /\ elm' = [elm EXCEPT ![s][q] = e0]
             /\ hist' = HistAfter(hist, s, q, e0)
             /\ ev' = [e EXCEPT !.status = ModifyCheck(s, q)]
             /\ UNCHANGED <<page, pageLSN, wal, covered,
                            last_used_seq, afterReset, sinceLog>>
        ELSE
        IF e0.last # e0.cached
        THEN LET e1 == NextvalCached(e0)
             IN  /\ elm' = [elm EXCEPT ![s][q] = e1]
                 /\ last_used_seq' = [last_used_seq EXCEPT ![s] = CachedLastUsed(@, q)]
                 /\ hist' = HistAfter(
                                [hist EXCEPT ![s] = [seq |-> q, fromCache |-> TRUE,
                                                    val |-> [@.val EXCEPT ![q] = <<e1.last>>],
                                                    own |-> [@.own EXCEPT ![q] = <<e1.last>>],
                                                    am |-> @.am]], s, q, e1)
                 /\ afterReset' = [afterReset EXCEPT ![q] = FALSE]
                 /\ sinceLog' = IF RelationNeedsWAL(relpersistence[q])
                                THEN sinceLog + 1 ELSE sinceLog
                 /\ ev' = [e EXCEPT !.result = e1.last, !.am = hist[s].am[q]]
                 /\ UNCHANGED <<page, pageLSN, wal, covered>>
        ELSE LET r == SeqLocalNextval(page[q], pageLSN[q], RedoRecPtr,
                                      relpersistence[q], seqform[q])
             IN  IF r.error
                 THEN /\ elm' = [elm EXCEPT ![s][q] = e0]
                      /\ hist' = HistAfter(hist, s, q, e0)
                      /\ ev' = [e EXCEPT !.status = "limit", !.amcall = TRUE]
                      /\ UNCHANGED <<page, pageLSN, wal, covered,
                                     last_used_seq, afterReset, sinceLog>>
                 ELSE /\ AmApply(q, r)
                      /\ elm' = [elm EXCEPT ![s][q] =
                                    NextvalSave(e0, seqform[q].incby, r.result, r.last)]
                      /\ last_used_seq' = [last_used_seq EXCEPT ![s] = q]
                      /\ hist' = HistAfter(
                                     [hist EXCEPT ![s] =
                                        [seq |-> q, fromCache |-> FALSE,
                                         val |-> [@.val EXCEPT ![q] = <<r.result>>],
                                         own |-> [@.own EXCEPT ![q] = <<r.result>>],
                                         am |-> [@.am EXCEPT ![q] =
                                                   <<r.result, r.last, seqform[q].cache>>]]],
                                     s, q, NextvalSave(e0, seqform[q].incby, r.result, r.last))
                      /\ afterReset' = [afterReset EXCEPT ![q] = FALSE]
                      /\ sinceLog' = IF r.logit THEN 1
                                     ELSE IF RelationNeedsWAL(relpersistence[q])
                                     THEN sinceLog + 1 ELSE sinceLog
                      /\ ev' = [e EXCEPT !.result = r.result,
                                         !.logit = r.logit, !.amcall = TRUE,
                                         !.period = IF r.logit THEN sinceLog ELSE 0]

NextvalAction(s, q) ==
    /\ Nextval(s, q)
    /\ UNCHANGED <<returned, lock, sequenceam, defVars, snow, envVars, ckptVars, diskVars, crash, nCalls, lastRes>>

\* currval_oid by session s on sequence q.
Currval(s, q) ==
    LET e0 == InitSequence(elm[s][q], relfilenode[q])
        e  == [NoEvent EXCEPT !.op = "currval", !.s = s, !.q = q,
                              !.afterSet = AfterSet(s, q),
                              !.hadCache = (elm[s][q].last # elm[s][q].cached)]
    IN  /\ elm' = [elm EXCEPT ![s][q] = e0]
        /\ ev' = IF ~e0.last_valid THEN [e EXCEPT !.status = "notdefined"]
                                   ELSE [e EXCEPT !.result = e0.last]
        /\ hist' = HistAfter(hist, s, q, e0)
        /\ UNCHANGED <<returned, lock, sequenceam, defVars, snow, envVars, page, pageLSN, wal, ckptVars, diskVars, last_used_seq,
                       afterReset, covered, crash, nCalls, lastRes, sinceLog>>

\* lastval by session s.
Lastval(s) ==
    LET e == [NoEvent EXCEPT !.op = "lastval", !.s = s, !.q = last_used_seq[s]]
    IN  /\ ev' = IF last_used_seq[s] = 0 THEN [e EXCEPT !.status = "notdefined"]
                 ELSE IF dropped[last_used_seq[s]] THEN [e EXCEPT !.status = "notdefined"]
                 ELSE [e EXCEPT !.result = elm[s][last_used_seq[s]].last]
        /\ UNCHANGED <<returned, lock, sequenceam, defVars, snow, envVars, page, pageLSN, wal, ckptVars, diskVars, sessVars,
                       covered, crash, nCalls, lastRes, sinceLog>>

\* seq_local_setval: the tuple written to the page and the WAL.
SeqLocalSetvalCalled(q, next, iscalled) ==
    /\ page' = [page EXCEPT ![q] = SeqTuple(next, 0, TRUE)]
    /\ wal' = IF RelationNeedsWAL(relpersistence[q])
              THEN Append(wal, XlSeqLocalRec(q, relfilenode[q], page'[q])) ELSE wal
    /\ pageLSN' = IF RelationNeedsWAL(relpersistence[q])
                  THEN [pageLSN EXCEPT ![q] = Len(wal')] ELSE pageLSN
    /\ covered' = IF RelationNeedsWAL(relpersistence[q]) THEN Append(covered, <<>>)
                                                         ELSE covered

\* seq_local_setval that writes the record before it changes the tuple.
SeqLocalSetvalLogFirst(q, next, iscalled) ==
    /\ page' = [page EXCEPT ![q] = SeqTuple(next, 0, iscalled)]
    /\ wal' = IF RelationNeedsWAL(relpersistence[q])
              THEN Append(wal, XlSeqLocalRec(q, relfilenode[q], page[q])) ELSE wal
    /\ pageLSN' = IF RelationNeedsWAL(relpersistence[q])
                  THEN [pageLSN EXCEPT ![q] = Len(wal')] ELSE pageLSN
    /\ covered' = IF RelationNeedsWAL(relpersistence[q]) THEN Append(covered, <<>>)
                                                         ELSE covered

SeqLocalSetval(q, next, iscalled) ==
    /\ page' = [page EXCEPT ![q] = SeqTuple(next, 0, iscalled)]
    /\ wal' = IF RelationNeedsWAL(relpersistence[q])
              THEN Append(wal, XlSeqLocalRec(q, relfilenode[q], page'[q])) ELSE wal
    /\ pageLSN' = IF RelationNeedsWAL(relpersistence[q])
                  THEN [pageLSN EXCEPT ![q] = Len(wal')] ELSE pageLSN
    /\ covered' = IF RelationNeedsWAL(relpersistence[q]) THEN Append(covered, <<>>)
                                                         ELSE covered

\* do_setval that takes the value set for the last one pre-fetched.
DoSetvalEntryCachedNext(e, next, iscalled) ==
    IF iscalled THEN [e EXCEPT !.last = next, !.last_valid = TRUE, !.cached = next]
    ELSE [e EXCEPT !.cached = next]

\* The entry do_setval leaves.
DoSetvalEntryKeepCache(e, next, iscalled) ==
    IF iscalled THEN [e EXCEPT !.last = next, !.last_valid = TRUE] ELSE e

DoSetvalEntryAsStated(e, next, iscalled) ==
    [e EXCEPT !.last = next, !.cached = next, !.last_valid = iscalled]

DoSetvalEntry(e, next, iscalled) ==
    LET e1 == IF iscalled THEN [e EXCEPT !.last = next, !.last_valid = TRUE] ELSE e
    IN  [e1 EXCEPT !.cached = e1.last]

\* do_setval by session s on sequence q.
Setval(s, q, next, iscalled) ==
    LET e0 == InitSequence(elm[s][q], relfilenode[q])
        e  == [NoEvent EXCEPT !.op = "setval", !.s = s, !.q = q, !.arg = next,
                              !.iscalled = iscalled,
                              !.hadCache = (elm[s][q].last # elm[s][q].cached)]
        chk == IF ModifyCheck(s, q) # "ok" THEN ModifyCheck(s, q)
               ELSE IF next < seqform[q].minv \/ next > seqform[q].maxv THEN "outofrange"
               ELSE "ok"
    IN  IF chk # "ok"
        THEN /\ elm' = [elm EXCEPT ![s][q] = e0]
             /\ ev' = [e EXCEPT !.status = chk]
             /\ hist' = HistAfter(hist, s, q, e0)
             /\ UNCHANGED <<returned, lock, sequenceam, defVars, snow, envVars, page, pageLSN, wal, ckptVars, diskVars,
                            last_used_seq, afterReset, covered, crash, nCalls,
                            lastRes, sinceLog>>
        ELSE /\ elm' = [elm EXCEPT ![s][q] = DoSetvalEntry(e0, next, iscalled)]
             /\ SeqLocalSetval(q, next, iscalled)
             /\ hist' = IF iscalled
                        THEN [hist EXCEPT ![s].val[q] = NoVal, ![s].own[q] = <<next>>,
                                          ![s].am[q] = NoVal]
                        ELSE [hist EXCEPT ![s].am[q] = NoVal]
             /\ afterReset' = [afterReset EXCEPT ![q] = FALSE]
             /\ ev' = [e EXCEPT !.result = next]
             /\ UNCHANGED <<returned, lock, sequenceam, defVars, snow, envVars, ckptVars, diskVars, last_used_seq, crash, nCalls,
                            lastRes, sinceLog>>

\* The storage file number RelationSetNewRelfilenumber gives the relation: one
\* that the relation does not have and that no session remembers for it.
GetNewRelFileNumber(q) ==
    LET seen == {relfilenode[q]} \cup { elm[s][q].filenumber : s \in DOMAIN elm }
    IN  1 + CHOOSE n \in seen : \A m \in seen : m <= n

\* The transaction of session s after it gave sequence q a new storage file:
\* inside a transaction block the old file, its page and the pg_sequence row
\* stay behind for the case of an abort (the first of them when the block
\* rewrites the sequence more than once), outside a block the change commits.
XactAfterRewrite(s, q) ==
    IF xact[s].block /\ ~\E u \in xact[s].undo : u.q = q
    THEN [xact EXCEPT ![s].undo = @ \cup {[q |-> q, relfilenode |-> relfilenode[q],
                                           page |-> page[q], pageLSN |-> pageLSN[q],
                                           seqform |-> seqform[q],
                                           afterReset |-> afterReset[q]]}]
    ELSE xact

\* seq_local_reset that changes the page it read before copying the tuple.
SeqLocalResetInPlace(q, startv, is_called, reset_state) ==
    /\ relfilenode' = relfilenode
    /\ page' = [page EXCEPT ![q] = SeqTuple(startv,
                                            IF reset_state THEN 0 ELSE @.log_cnt,
                                            is_called)]
    /\ wal' = IF RelationNeedsWAL(relpersistence[q])
              THEN Append(wal, XlSeqLocalRec(q, relfilenode'[q], page'[q])) ELSE wal
    /\ pageLSN' = [pageLSN EXCEPT ![q] = IF RelationNeedsWAL(relpersistence[q])
                                         THEN Len(wal') ELSE 0]
    /\ covered' = IF RelationNeedsWAL(relpersistence[q]) THEN Append(covered, <<>>)
                                                         ELSE covered

\* seq_local_reset: the current tuple is copied and modified, the relation gets
\* a new storage file and the tuple is installed (and logged) in it.
SeqLocalReset(q, startv, is_called, reset_state) ==
    /\ relfilenode' = [relfilenode EXCEPT ![q] = GetNewRelFileNumber(q)]
    /\ page' = [page EXCEPT ![q] = SeqTuple(startv,
                                            IF reset_state THEN 0 ELSE @.log_cnt,
                                            is_called)]
    /\ wal' = IF RelationNeedsWAL(relpersistence[q])
              THEN Append(wal, XlSeqLocalRec(q, relfilenode'[q], page'[q])) ELSE wal
    /\ pageLSN' = [pageLSN EXCEPT ![q] = IF RelationNeedsWAL(relpersistence[q])
                                         THEN Len(wal') ELSE 0]
    /\ covered' = IF RelationNeedsWAL(relpersistence[q]) THEN Append(covered, <<>>)
                                                         ELSE covered

\* ResetSequence by session s on sequence q (committed unless the session is in
\* a transaction block).
ResetSequence(s, q) ==
    LET e0 == InitSequence(elm[s][q], relfilenode[q])
    IN  /\ relfilenode[q] <= MaxResets
        /\ SeqLocalReset(q, seqform[q].start, FALSE, TRUE)
        /\ elm' = [elm EXCEPT ![s][q] = [e0 EXCEPT !.cached = e0.last]]
        /\ afterReset' = [afterReset EXCEPT ![q] = TRUE]
        /\ ev' = [NoEvent EXCEPT !.op = "reset", !.s = s, !.q = q]
        /\ hist' = [hist EXCEPT ![s].am[q] = NoVal]
        /\ xact' = XactAfterRewrite(s, q)
        /\ UNCHANGED <<returned, lock, sequenceam, seqform, relpersistence, snow, dropped, ckptVars, diskVars, last_used_seq,
                       crash, nCalls, lastRes, sinceLog>>

\* AlterSequence by session s on sequence q with the one option CACHE n
\* (committed): init_params stores the new cache and asks for a rewrite with
\* reset_state, the tuple seq_local_get_state read goes into a new file, and the
\* session forgets its pre-fetched values.
AlterSequenceCache(s, q, n) ==
    LET e0 == InitSequence(elm[s][q], relfilenode[q])
    IN  /\ relfilenode[q] <= MaxResets
        /\ n >= 1
        /\ seqform' = [seqform EXCEPT ![q].cache = n]
        /\ SeqLocalReset(q, page[q].last_value, page[q].is_called, TRUE)
        /\ elm' = [elm EXCEPT ![s][q] = [e0 EXCEPT !.cached = e0.last]]
        /\ ev' = [NoEvent EXCEPT !.op = "alter", !.s = s, !.q = q, !.arg = n]
        /\ hist' = [hist EXCEPT ![s].am[q] = NoVal]
        /\ UNCHANGED <<returned, lock, sequenceam, relpersistence, snow, envVars, ckptVars, diskVars, last_used_seq,
                       afterReset, crash, nCalls, lastRes, sinceLog>>

\* The options list of CREATE / ALTER SEQUENCE: an option is absent, given
\* with a value, or given without one (NO MAXVALUE, NO MINVALUE, RESTART).
\* Sequences are of type bigint: no AS option.
Absent == [given |-> FALSE, arg |-> NoVal]
OptNull == [given |-> TRUE, arg |-> NoVal]
Opt(v) == [given |-> TRUE, arg |-> <<v>>]

NoOptions ==
    [as |-> Absent, increment |-> Absent, start |-> Absent, restart |-> Absent,
     maxvalue |-> Absent, minvalue |-> Absent, cache |-> Absent, cycle |-> Absent,
     owned_by |-> Absent]

\* init_params that asks for a rewrite whatever option is given.
NeedSeqRewriteAny(options) == \E o \in DOMAIN options : options[o].given

\* init_params, need_seq_rewrite: set by every option but OWNED BY.
NeedSeqRewrite(options) == \E o \in DOMAIN options \ {"owned_by"} : options[o].given

\* init_params, the assignments: the parameters as the options, the defaults
\* (isInit) and the existing definition resolve them.
ResolveParams(options, isInit, form, last_value, is_called) ==
    LET incby == IF options.increment.given THEN options.increment.arg[1]
                 ELSE IF isInit THEN 1 ELSE form.incby
        cycle == IF options.cycle.given THEN options.cycle.arg[1]
                 ELSE IF isInit THEN FALSE ELSE form.cycle
        maxv  == IF options.maxvalue.given /\ options.maxvalue.arg # NoVal
                 THEN options.maxvalue.arg[1]
                 ELSE IF isInit \/ options.maxvalue.given
                      THEN (IF incby > 0 THEN PG_INT64_MAX ELSE -1)
                      ELSE form.maxv
        minv  == IF options.minvalue.given /\ options.minvalue.arg # NoVal
                 THEN options.minvalue.arg[1]
                 ELSE IF isInit \/ options.minvalue.given
                      THEN (IF incby < 0 THEN PG_INT64_MIN ELSE 1)
                      ELSE form.minv
        start == IF options.start.given THEN options.start.arg[1]
                 ELSE IF isInit THEN (IF incby > 0 THEN minv ELSE maxv)
                 ELSE form.start
        last  == IF options.restart.given
                 THEN (IF options.restart.arg # NoVal THEN options.restart.arg[1] ELSE start)
                 ELSE IF isInit THEN start ELSE last_value
        cache == IF options.cache.given THEN options.cache.arg[1]
                 ELSE IF isInit THEN 1 ELSE form.cache
    IN [seqform |-> SeqForm(incby, minv, maxv, start, cache, cycle),
        last_value |-> last,
        is_called |-> IF options.restart.given \/ isInit THEN FALSE ELSE is_called,
        reset_state |-> \/ isInit \/ options.increment.given \/ options.cycle.given
                        \/ options.maxvalue.given \/ options.minvalue.given
                        \/ options.restart.given \/ options.cache.given,
        need_seq_rewrite |-> NeedSeqRewrite(options)]

\* init_params, the checks, in the order of the code: "ok" or "invalid"
\* (ERRCODE_INVALID_PARAMETER_VALUE).
init_paramsNoRestartCheck(options, isInit, form, last_value, is_called) ==
    LET r == ResolveParams(options, isInit, form, last_value, is_called)
        f == r.seqform
    IN [r EXCEPT !.need_seq_rewrite = @] @@
       [status |-> IF options.increment.given /\ f.incby = 0 THEN "invalid"
                   ELSE IF f.minv >= f.maxv THEN "invalid"
                   ELSE IF f.start < f.minv \/ f.start > f.maxv THEN "invalid"
                   ELSE IF options.cache.given /\ f.cache <= 0 THEN "invalid"
                   ELSE "ok"]

init_params(options, isInit, form, last_value, is_called) ==
    LET r == ResolveParams(options, isInit, form, last_value, is_called)
        f == r.seqform
    IN [r EXCEPT !.need_seq_rewrite = @] @@
       [status |-> IF options.increment.given /\ f.incby = 0 THEN "invalid"
                   ELSE IF f.minv >= f.maxv THEN "invalid"
                   ELSE IF f.start < f.minv \/ f.start > f.maxv THEN "invalid"
                   ELSE IF r.last_value < f.minv \/ r.last_value > f.maxv THEN "invalid"
                   ELSE IF options.cache.given /\ f.cache <= 0 THEN "invalid"
                   ELSE "ok"]

\* seq_local_init: the first tuple of a new sequence relation, in its new file.
SeqLocalInit(q, last_value, is_called) ==
    /\ relfilenode' = [relfilenode EXCEPT ![q] = @ + 1]
    /\ page' = [page EXCEPT ![q] = SeqTuple(last_value, 0, is_called)]
    /\ wal' = IF RelationNeedsWAL(relpersistence[q])
              THEN Append(wal, XlSeqLocalRec(q, relfilenode'[q], page'[q])) ELSE wal
    /\ pageLSN' = [pageLSN EXCEPT ![q] = IF RelationNeedsWAL(relpersistence[q])
                                         THEN Len(wal') ELSE 0]
    /\ covered' = IF RelationNeedsWAL(relpersistence[q]) THEN Append(covered, <<>>)
                                                         ELSE covered

\* DefineSequence (committed) under the name q, which no sequence bears: the
\* options are checked first, then the relation and its pg_sequence row are
\* made. The new relation is unknown to every session.
DefineSequence(q, options) ==
    LET r == init_params(options, TRUE, seqform[q], 0, FALSE)
        e == [NoEvent EXCEPT !.op = "create", !.q = q, !.options = <<options>>,
                             !.status = r.status]
    IN  /\ dropped[q]
        /\ relfilenode[q] <= MaxAlters
        /\ ev' = e
        /\ IF r.status = "ok"
           THEN /\ seqform' = [seqform EXCEPT ![q] = r.seqform]
                /\ SeqLocalInit(q, r.last_value, r.is_called)
                /\ dropped' = [dropped EXCEPT ![q] = FALSE]
                /\ elm' = [s \in DOMAIN elm |-> [elm[s] EXCEPT ![q] = NoEntry]]
                /\ last_used_seq' = [s \in DOMAIN elm |->
                                       IF last_used_seq[s] = q THEN 0 ELSE last_used_seq[s]]
                /\ hist' = [s \in DOMAIN elm |->
                              [hist[s] EXCEPT !.val[q] = NoVal, !.own[q] = NoVal,
                                              !.am[q] = NoVal]]
                /\ UNCHANGED <<returned, lock, sequenceam, relpersistence, snow, xact, ckptVars, diskVars, afterReset,
                               crash, nCalls, lastRes, sinceLog>>
           ELSE UNCHANGED <<returned, lock, sequenceam, defVars, snow, envVars, page, pageLSN, wal, ckptVars, diskVars,
                            elm, last_used_seq, hist, afterReset, covered, crash, nCalls,
                            lastRes, sinceLog>>

\* AlterSequence by session s on sequence q (committed when it succeeds outside
\* a transaction block):
\* init_sequence, seq_local_get_state, init_params, then the rewrite, the
\* session's pre-fetched values forgotten, and the pg_sequence row updated.
AlterSequence(s, q, options) ==
    LET e0 == InitSequence(elm[s][q], relfilenode[q])
        r  == init_params(options, FALSE, seqform[q], page[q].last_value, page[q].is_called)
        e  == [NoEvent EXCEPT !.op = "alter", !.s = s, !.q = q, !.options = <<options>>,
                              !.status = r.status, !.before = page[q],
                              !.hadCache = elm[s][q].cached # elm[s][q].last]
    IN  /\ ~dropped[q]
        /\ relfilenode[q] <= MaxAlters
        /\ ev' = e
        /\ IF r.status = "ok"
           THEN /\ seqform' = [seqform EXCEPT ![q] = r.seqform]
                /\ IF r.need_seq_rewrite
                   THEN SeqLocalReset(q, r.last_value, r.is_called, r.reset_state)
                   ELSE UNCHANGED <<relfilenode, page, pageLSN, wal, covered>>
                /\ elm' = [elm EXCEPT ![s][q] = [e0 EXCEPT !.cached = e0.last]]
                /\ hist' = [hist EXCEPT ![s].am[q] = NoVal]
                /\ xact' = XactAfterRewrite(s, q)
                /\ UNCHANGED <<returned, lock, sequenceam, relpersistence, snow, dropped, ckptVars, diskVars,
                               last_used_seq, afterReset, crash, nCalls, lastRes, sinceLog>>
           ELSE /\ elm' = [elm EXCEPT ![s][q] = e0]
                /\ hist' = HistAfter(hist, s, q, e0)
                /\ UNCHANGED <<returned, lock, sequenceam, defVars, snow, envVars, page, pageLSN, wal, ckptVars,
                               diskVars, last_used_seq, afterReset, covered, crash, nCalls,
                               lastRes, sinceLog>>

\* ResetSequenceCaches (DISCARD SEQUENCES) by session s: seqhashtab is destroyed.
ResetSequenceCachesKeepLastUsed(s) ==
    /\ elm' = [elm EXCEPT ![s] = [q \in DOMAIN page |-> NoEntry]]
    /\ last_used_seq' = last_used_seq
    /\ hist' = [hist EXCEPT ![s] = NoHist(DOMAIN page)]
    /\ ev' = [NoEvent EXCEPT !.op = "discard", !.s = s]
    /\ UNCHANGED <<returned, lock, sequenceam, defVars, snow, envVars, page, pageLSN, wal, ckptVars, diskVars, afterReset,
                   covered, crash, nCalls, lastRes, sinceLog>>

ResetSequenceCaches(s) ==
    /\ elm' = [elm EXCEPT ![s] = [q \in DOMAIN page |-> NoEntry]]
    /\ last_used_seq' = [last_used_seq EXCEPT ![s] = 0]
    /\ hist' = [hist EXCEPT ![s] = NoHist(DOMAIN page)]
    /\ ev' = [NoEvent EXCEPT !.op = "discard", !.s = s]
    /\ UNCHANGED <<returned, lock, sequenceam, defVars, snow, envVars, page, pageLSN, wal, ckptVars, diskVars, afterReset,
                   covered, crash, nCalls, lastRes, sinceLog>>

\* The sequence q is dropped: its pg_class row no longer exists, which is what
\* lastval's SearchSysCacheExists1(RELOID, ..) looks at.
DropSequence(q) ==
    /\ ~dropped[q]
    /\ dropped' = [dropped EXCEPT ![q] = TRUE]
    /\ ev' = [NoEvent EXCEPT !.op = "drop", !.q = q]
    /\ UNCHANGED <<returned, lock, sequenceam, defVars, snow, xact, page, pageLSN, wal, ckptVars, diskVars, sessVars,
                   covered, crash, nCalls, lastRes, sinceLog>>

\* Session s begins a transaction that is read-only or not, and in parallel
\* mode or not: what PreventCommandIfReadOnly and PreventCommandIfParallelMode
\* will see.
StartTransaction(s, ro, par) ==
    /\ xact' = [xact EXCEPT ![s] = [NormalXact EXCEPT !.readOnly = ro, !.parallel = par]]
    /\ ev' = [NoEvent EXCEPT !.op = "begin", !.s = s]
    /\ UNCHANGED <<returned, lock, sequenceam, defVars, snow, dropped, page, pageLSN, wal, ckptVars, diskVars, sessVars,
                   covered, crash, nCalls, lastRes, sinceLog>>

\* The sequences that still exist.
Existing == { q \in DOMAIN page : ~dropped[q] }

\* Definitions used by the sessions: increments 1 and 2 and a descending one,
\* start away from the limits, with and without pre-fetched values.
SessionForms ==
    { f \in { SeqForm(k, 1, SessionMax, 2, 2, FALSE) : k \in {1, 2, -1} }
             \cup { SeqForm(1, 1, SessionMax, 2, 2, TRUE) } : ValidForm(f) }

\* One session and two sequences.
InitLastval ==
    /\ InitSeqs({1}, {1, 2}, SessionForms, {RELPERSISTENCE_UNLOGGED})
    /\ seqform[1].incby = 1 /\ ~seqform[1].cycle /\ seqform[2].incby # 1

\* Two sessions and one sequence, ascending or descending and cycling.
SharedForms ==
    { SeqForm(1, 1, SessionMax, 2, 2, FALSE), SeqForm(-1, 1, SessionMax, 2, 2, TRUE) }

InitShared == InitSeqs({1, 2}, {1}, SharedForms, {RELPERSISTENCE_UNLOGGED})

\* The operations through which one session's call reaches another session.
NextShared ==
    \/ \E s \in DOMAIN elm, q \in DOMAIN page : NextvalAction(s, q)
    \/ \E s \in DOMAIN elm, q \in DOMAIN page :
          \E v \in seqform[q].minv..seqform[q].maxv, ic \in BOOLEAN :
              Setval(s, q, v, ic)
    \/ \E s \in DOMAIN elm, q \in DOMAIN page : ResetSequence(s, q)

\* The operations that read or write a session's currval and lastval state.
NextLastval ==
    \/ \E s \in DOMAIN elm, q \in DOMAIN page : NextvalAction(s, q)
    \/ \E s \in DOMAIN elm, q \in DOMAIN page : Currval(s, q)
    \/ \E s \in DOMAIN elm : Lastval(s)
    \/ \E s \in DOMAIN elm, q \in DOMAIN page :
          \E v \in (seqform[q].minv - 1)..(seqform[q].maxv + 1), ic \in BOOLEAN :
              Setval(s, q, v, ic)

SpecLastval == InitLastval /\ [][NextLastval]_vars

SpecShared == InitShared /\ [][NextShared]_vars

\* One session and two sequences, with DISCARD SEQUENCES and DROP SEQUENCE.
DefinedForms == { SeqForm(1, 1, SessionMax, 2, 2, FALSE), SeqForm(-1, 1, SessionMax, 2, 2, TRUE) }

InitDefined ==
    /\ InitSeqs({1}, {1, 2}, DefinedForms, {RELPERSISTENCE_UNLOGGED})
    /\ seqform[1].incby = 1 /\ seqform[2].incby = -1

NextDefined ==
    \/ \E s \in DOMAIN elm, q \in Existing : NextvalAction(s, q)
    \/ \E s \in DOMAIN elm, q \in Existing : Currval(s, q)
    \/ \E s \in DOMAIN elm : Lastval(s)
    \/ \E s \in DOMAIN elm, q \in Existing :
          \E v \in seqform[q].minv..seqform[q].maxv, ic \in BOOLEAN : Setval(s, q, v, ic)
    \/ \E s \in DOMAIN elm : ResetSequenceCaches(s)
    \/ \E q \in Existing : DropSequence(q)

SpecDefined == InitDefined /\ [][NextDefined]_vars

\* Two sessions on one sequence with pre-fetching (cache up to CacheMax), and
\* ALTER SEQUENCE .. CACHE.
CacheForms ==
    { SeqForm(k, 1, SessionMax + 1, IF k > 0 THEN 1 ELSE SessionMax + 1, CacheMax, FALSE) :
        k \in {1, -1} }

InitCache == InitSeqs({1, 2}, {1}, CacheForms, {RELPERSISTENCE_UNLOGGED})

NextCache ==
    \/ \E s \in DOMAIN elm, q \in DOMAIN page : NextvalAction(s, q)
    \/ \E s \in DOMAIN elm, q \in DOMAIN page :
          \E v \in {seqform[q].minv, seqform[q].start} : Setval(s, q, v, FALSE)
    \/ \E s \in DOMAIN elm, q \in DOMAIN page, n \in 1..CacheMax :
          AlterSequenceCache(s, q, n)

SpecCache == InitCache /\ [][NextCache]_vars

\* One session with a non-temporary sequence (1) and a temporary one (2), in
\* transactions that are read-only or not and in parallel mode or not.
ModeForms == { SeqForm(1, 1, SessionMax, 2, 2, FALSE) }

InitModes ==
    /\ InitSeqs({1}, {1, 2}, ModeForms, {RELPERSISTENCE_UNLOGGED, RELPERSISTENCE_TEMP})
    /\ relpersistence[1] = RELPERSISTENCE_UNLOGGED
    /\ relpersistence[2] = RELPERSISTENCE_TEMP

NextModes ==
    \/ \E s \in DOMAIN elm, ro \in BOOLEAN, par \in BOOLEAN : StartTransaction(s, ro, par)
    \/ \E s \in DOMAIN elm, q \in DOMAIN page : NextvalAction(s, q)
    \/ \E s \in DOMAIN elm, q \in DOMAIN page : Currval(s, q)
    \/ \E s \in DOMAIN elm : Lastval(s)
    \/ \E s \in DOMAIN elm, q \in DOMAIN page :
          \E v \in seqform[q].minv..(seqform[q].maxv + 1) : Setval(s, q, v, TRUE)

SpecModes == InitModes /\ [][NextModes]_vars

\* Two sessions on one ascending sequence: every operation that reads or
\* writes a session's entry, and ResetSequence, which replaces the file.
IsolationForms == { SeqForm(1, 1, SessionMax, 2, 2, FALSE) }

InitIsolation == InitSeqs({1, 2}, {1}, IsolationForms, {RELPERSISTENCE_UNLOGGED})

NextIsolation ==
    \/ \E s \in DOMAIN elm, q \in DOMAIN page : NextvalAction(s, q)
    \/ \E s \in DOMAIN elm, q \in DOMAIN page : Currval(s, q)
    \/ \E s \in DOMAIN elm : Lastval(s)
    \/ \E s \in DOMAIN elm, q \in DOMAIN page :
          \E v \in seqform[q].minv..seqform[q].maxv, ic \in BOOLEAN : Setval(s, q, v, ic)
    \/ \E s \in DOMAIN elm, q \in DOMAIN page : ResetSequence(s, q)

SpecIsolation == InitIsolation /\ [][NextIsolation]_vars

\* One session on one WAL-logged ascending sequence that starts at 1, for each
\* cache size: small ones, SEQ_LOCAL_LOG_VALS and one more.
WalRateForms ==
    { SeqForm(1, 1, FarMax, 1, n, FALSE) :
        n \in (1..MaxCache) \cup {SEQ_LOCAL_LOG_VALS, SEQ_LOCAL_LOG_VALS + 1} }

InitWalRate == InitSeqs({1}, {1}, WalRateForms, {RELPERSISTENCE_PERMANENT})

NextWalRate == \E s \in DOMAIN elm, q \in DOMAIN page : NextvalAction(s, q)

SpecWalRate == InitWalRate /\ [][NextWalRate]_vars

\* The options of the CREATE and ALTER SEQUENCE statements followed.
DdlOptions ==
  { o \in
    [increment : {Absent, Opt(0), Opt(-1)},
     start     : {Absent, Opt(1), Opt(3)},
     restart   : {Absent, OptNull, Opt(3)},
     maxvalue  : {Absent, OptNull, Opt(2)},
     minvalue  : {Absent, OptNull, Opt(2)},
     cache     : {Absent, Opt(0), Opt(2)},
     cycle     : {Absent}] :
    Cardinality({k \in DOMAIN o : o[k].given}) <= MaxOptions }

\* One session; the sequence exists, created with the defaults.
InitDdl ==
    /\ InitSeqs({1}, {1}, {init_params(NoOptions, TRUE, NoEntry, 0, FALSE).seqform},
                {RELPERSISTENCE_UNLOGGED})

NextDdl ==
    \/ \E q \in DOMAIN page, o \in DdlOptions : DefineSequence(q, o)
    \/ \E s \in DOMAIN elm, q \in DOMAIN page, o \in DdlOptions : AlterSequence(s, q, o)
    \/ \E q \in DOMAIN page : DropSequence(q)

SpecDdl == InitDdl /\ [][NextDdl]_vars

\* ------------------------------------------------------- strategy set calls

\* A strategy set call (seq_local_setval) on sequence q by any session, with a
\* value do_setval has found within the sequence's bounds.
AmSetval(q, next, iscalled) ==
    /\ nCalls < MaxCalls
    /\ SeqLocalSetval(q, next, iscalled)
    /\ ev' = [NoEvent EXCEPT !.op = "set", !.q = q, !.arg = next, !.iscalled = iscalled,
                             !.before = page[q]]
    /\ nCalls' = nCalls + 1
    /\ lastRes' = [lastRes EXCEPT ![q] = NoVal]
    /\ UNCHANGED <<returned, lock, sequenceam, defVars, snow, envVars, ckptVars, diskVars, sessVars, crash,
                   sinceLog>>

\* Definitions over 1 .. SmallMax: ascending without CYCLE caching one value,
\* ascending with CYCLE and descending without, caching two.
SetForms ==
    { SeqForm(1, 1, SmallMax, 1, 1, FALSE), SeqForm(1, 1, SmallMax, 1, 2, TRUE),
      SeqForm(-1, 1, SmallMax, SmallMax, 2, FALSE) }

\* Values given to set: the bounds of the sequence and one between them.
SetValues(q) == {seqform[q].minv, seqform[q].minv + 1, seqform[q].maxv}

InitSetWal ==
    InitSeqs({1}, {1}, SetForms,
             {RELPERSISTENCE_PERMANENT, RELPERSISTENCE_UNLOGGED, RELPERSISTENCE_TEMP})

NextSetWal ==
    \/ \E q \in DOMAIN page : nCalls < MaxSetCalls /\ AmNextval(q)
    \/ \E q \in DOMAIN page, ic \in BOOLEAN :
          \E v \in SetValues(q) : nCalls < MaxSetCalls /\ AmSetval(q, v, ic)
    \/ CheckpointStart
    \/ CheckpointSync
    \/ CheckpointEnd

SpecSetWal == InitSetWal /\ [][NextSetWal]_vars

\* ------------------------------------------------------- replay

\* Tuples of the records replayed, and the records' end LSNs.
RedoTuples == { SeqTuple(v, lc, ic) : v \in {1, 2}, lc \in {0, SEQ_LOCAL_LOG_VALS},
                                      ic \in BOOLEAN }
RedoLsns == 1..MaxRedoLsn

\* Pages replay may find in the buffer: zeroed, of the local AM or of another
\* AM, with no item, one or two, of any LSN.
RedoPages ==
    { [magic |-> m, items |-> it, lsn |-> l] :
        m \in {0, SEQ_LOCAL_MAGIC, SNOWFLAKE_MAGIC},
        it \in {NoVal} \cup { <<x>> : x \in RedoTuples }
                \cup { <<SeqTuple(2, 0, TRUE), x>> : x \in RedoTuples },
        l \in 0..MaxRedoLsn }

\* Recovery replays the record (tuple, end LSN lsn) of sequence q.
RedoRecord(q, tuple, lsn) ==
    /\ diskPage' = [diskPage EXCEPT ![q] =
                       seq_local_redo(@, XlSeqLocalRec(q, relfilenode[q], tuple), lsn)]
    /\ ev' = [NoEvent EXCEPT !.op = "redo", !.q = q, !.arg = lsn, !.before = tuple,
                             !.prev = <<diskPage[q]>>]
    /\ UNCHANGED <<returned, lock, sequenceam, defVars, snow, envVars, page, pageLSN, wal, ckptVars, flushedLSN,
                   sessVars, covered, crash, nCalls, lastRes, sinceLog>>

InitRedo ==
    /\ InitBuffers({1}, {1}, {SeqForm(1, 1, SessionMax, 1, 1, FALSE)},
                   {RELPERSISTENCE_PERMANENT})
    /\ snow = SnowflakeInit(1, FALSE)
    /\ sequenceam = NoRoutine
    /\ lock = NoLocks
    /\ returned = {}
    /\ diskPage \in [{1} -> RedoPages]

NextRedo == \E q \in DOMAIN diskPage, tuple \in RedoTuples, lsn \in RedoLsns :
               RedoRecord(q, tuple, lsn)

SpecRedo == InitRedo /\ [][NextRedo]_vars

\* ------------------------------------------------------- transaction blocks

\* BEGIN by session s: what the session does from now on commits or aborts
\* as a whole.
BeginTransactionBlock(s) ==
    /\ ~xact[s].block
    /\ xact' = [xact EXCEPT ![s].block = TRUE]
    /\ ev' = [NoEvent EXCEPT !.op = "beginblock", !.s = s]
    /\ UNCHANGED <<returned, lock, sequenceam, defVars, snow, dropped, page, pageLSN, wal, ckptVars, diskVars,
                   sessVars, covered, crash, nCalls, lastRes, sinceLog>>

\* COMMIT by session s: the files left behind by its rewrites are dropped.
CommitTransaction(s) ==
    /\ xact[s].block
    /\ xact' = [xact EXCEPT ![s].block = FALSE, ![s].undo = {}]
    /\ ev' = [NoEvent EXCEPT !.op = "commit", !.s = s]
    /\ UNCHANGED <<returned, lock, sequenceam, defVars, snow, dropped, page, pageLSN, wal, ckptVars, diskVars,
                   sessVars, covered, crash, nCalls, lastRes, sinceLog>>

\* ROLLBACK, or the failure, of the transaction block of session s: the
\* catalog rows of the sequences it rewrote are the old ones again, so each
\* has its old file number and pg_sequence row, and the file of that number
\* is the one it had; the new files are dropped. What a session remembers, and
\* WAL already written, stay. A page changed without a new file stays changed.
AbortTransaction(s) ==
    LET undone == { u.q : u \in xact[s].undo }
        Old(q) == CHOOSE u \in xact[s].undo : u.q = q
        moved  == { q \in undone : relfilenode[q] # Old(q).relfilenode }
    IN  /\ xact[s].block
        /\ xact' = [xact EXCEPT ![s].block = FALSE, ![s].undo = {}]
        /\ relfilenode' = [q \in DOMAIN relfilenode |->
                              IF q \in undone THEN Old(q).relfilenode ELSE relfilenode[q]]
        /\ seqform' = [q \in DOMAIN seqform |->
                         IF q \in undone THEN Old(q).seqform ELSE seqform[q]]
        /\ page' = [q \in DOMAIN page |-> IF q \in moved THEN Old(q).page ELSE page[q]]
        /\ pageLSN' = [q \in DOMAIN page |->
                         IF q \in moved THEN Old(q).pageLSN ELSE pageLSN[q]]
        /\ afterReset' = [q \in DOMAIN page |->
                            IF q \in moved THEN Old(q).afterReset ELSE afterReset[q]]
        /\ ev' = [NoEvent EXCEPT !.op = "abort", !.s = s]
        /\ UNCHANGED <<returned, lock, sequenceam, relpersistence, snow, dropped, wal, ckptVars, diskVars, elm,
                       last_used_seq, hist, covered, crash, nCalls, lastRes, sinceLog>>

\* Session s waits for the lock on sequence q: another session's open
\* transaction block has rewritten q (AccessExclusiveLock of ResetSequence's
\* caller, ShareRowExclusiveLock of AlterSequence, against the RowExclusiveLock
\* of nextval), and holds the lock to its end.
LockedOut(s, q) ==
    \E t \in DOMAIN xact : t # s /\ \E u \in xact[t].undo : u.q = q

\* Two sessions on one ascending sequence that pre-fetches two values.
XactForms == { SeqForm(1, 1, MaxXactValue, 1, 2, FALSE) }

\* ALTER SEQUENCE .. RESTART, .. CACHE 3 (rewriting) and .. with nothing.
XactOptions ==
    { [NoOptions EXCEPT !.restart = OptNull], [NoOptions EXCEPT !.cache = Opt(3)] }

InitXact == InitSeqs({1, 2}, {1}, XactForms, {RELPERSISTENCE_UNLOGGED})

NextXact ==
    \/ \E s \in DOMAIN elm : BeginTransactionBlock(s)
    \/ \E s \in DOMAIN elm : CommitTransaction(s)
    \/ \E s \in DOMAIN elm : AbortTransaction(s)
    \/ \E s \in DOMAIN elm, q \in DOMAIN page : ~LockedOut(s, q) /\ NextvalAction(s, q)
    \/ \E s \in DOMAIN elm, q \in DOMAIN page :
          /\ ~LockedOut(s, q)
          /\ GetNewRelFileNumber(q) <= MaxResets + 1
          /\ ResetSequence(s, q)
    \/ \E s \in DOMAIN elm, q \in DOMAIN page, o \in XactOptions :
          /\ ~LockedOut(s, q)
          /\ GetNewRelFileNumber(q) <= MaxResets + 1
          /\ AlterSequence(s, q, o)

SpecXact == InitXact /\ [][NextXact]_vars

\* ------------------------------------------------------- snowflake AM

\* gettimeofday(): the wall clock never goes back; it may have moved on by the
\* time it is read.
ClockRead(now) == {t \in now..(now + 1) : t <= MaxClock}

\* pg_usleep(1000L) followed by gettimeofday(): at least 1 ms later.
PgUsleep(now) == {t \in (now + 1)..(now + 2) : t <= MaxClock}

\* A 64-bit word is kept as three limbs <<bits 0..21, bits 22..43, bits 44..63>>:
\* the timestamp shift moves a word by exactly one limb.
Limb == 2^SNOWFLAKE_TIMESTAMP_SHIFT
TopLimb == 2^(Int64Bits - 2 * SNOWFLAKE_TIMESTAMP_SHIFT)

\* (uint64) n, for a non-negative n.
ToU64(n) == <<n % Limb, (n \div Limb) % Limb, 0>>

\* a & b and a | b on non-negative integers.
RECURSIVE BitAnd(_, _)
BitAnd(a, b) ==
    IF a = 0 \/ b = 0 THEN 0
    ELSE (a % 2) * (b % 2) + 2 * BitAnd(a \div 2, b \div 2)

RECURSIVE BitOr(_, _)
BitOr(a, b) ==
    IF a = 0 THEN b
    ELSE IF b = 0 THEN a
    ELSE (IF a % 2 = 1 \/ b % 2 = 1 THEN 1 ELSE 0) + 2 * BitOr(a \div 2, b \div 2)

U64Or(v, w) == <<BitOr(v[1], w[1]), BitOr(v[2], w[2]), BitOr(v[3], w[3])>>

\* w & SNOWFLAKE_TIMESTAMP_MASK
TimestampBits(w) ==
    <<w[1], w[2] % 2^(SNOWFLAKE_TIMESTAMP_BITS - SNOWFLAKE_TIMESTAMP_SHIFT), 0>>

\* w << SNOWFLAKE_TIMESTAMP_SHIFT on 64 bits
ShiftLeftTimestamp(w) == <<0, w[1], w[2] % TopLimb>>

\* The sign bit of an int64.
IsNegative(w) == w[3] >= TopLimb \div 2

\* raw >> SNOWFLAKE_TIMESTAMP_SHIFT on an int64: the sign bit is shifted in.
ShiftRightTimestamp(w) ==
    IF IsNegative(w) THEN <<w[2], w[3] + (Limb - TopLimb), TopLimb - 1>>
    ELSE <<w[2], w[3], 0>>

\* snowflake_id_to_int64: counter, machine and timestamp packed into one value.
snowflake_id_to_int64NoMask(id) ==
    U64Or(U64Or(ToU64(id.count * 2^SNOWFLAKE_COUNTER_SHIFT),
                ToU64(id.machine * 2^SNOWFLAKE_MACHINE_ID_SHIFT)),
          ShiftLeftTimestamp(id.time_ms))

snowflake_id_to_int64(id) ==
    U64Or(U64Or(ToU64(BitAnd(id.count, SNOWFLAKE_COUNTER_MASK)
                        * 2^SNOWFLAKE_COUNTER_SHIFT),
                ToU64(BitAnd(id.machine, SNOWFLAKE_MACHINE_ID_MASK)
                        * 2^SNOWFLAKE_MACHINE_ID_SHIFT)),
          ShiftLeftTimestamp(TimestampBits(id.time_ms)))

\* int64_to_snowflake_id
int64_to_snowflake_id(raw) ==
    [count   |-> BitAnd(raw[1] \div 2^SNOWFLAKE_COUNTER_SHIFT, SNOWFLAKE_COUNTER_MASK),
     machine |-> BitAnd(raw[1] \div 2^SNOWFLAKE_MACHINE_ID_SHIFT, SNOWFLAKE_MACHINE_ID_MASK),
     time_ms |-> TimestampBits(ShiftRightTimestamp(raw))]

\* id.count++, and the test of the threshold.
SnowflakeWraps(count) == count + 1 > CounterBits(PG_INT16_MAX)

SnowflakeCountToZero(count) == IF SnowflakeWraps(count) THEN 0 ELSE count + 1

SnowflakeCountStored(count) == IF SnowflakeWraps(count) THEN 1 ELSE count

SnowflakeCount(count) == IF SnowflakeWraps(count) THEN 1 ELSE count + 1

\* The timestamp is read after the sleep of the wrap path.
SnowflakeTimesNoSleep(now, wrap) == ClockRead(now)

SnowflakeTimes(now, wrap) == IF wrap THEN PgUsleep(now) ELSE ClockRead(now)

\* snowflake_sequenceam_nextval
SnowflakeNextval ==
    /\ snow.calls < MaxSnowCalls
    /\ LET wrap == SnowflakeWraps(snow.count)
           c    == SnowflakeCount(snow.count)
       IN \E t \in SnowflakeTimes(snow.now, wrap) :
            LET id == [count |-> c, machine |-> snow.machine_id, time_ms |-> ToU64(t)]
                r  == snowflake_id_to_int64(id)
            IN snow' = [snow EXCEPT !.count = c, !.is_called = TRUE, !.now = t,
                                    !.calls = @ + 1,
                                    !.wraps = IF wrap THEN @ + 1 ELSE @,
                                    !.issued = IF snow.calls < MaxTracked
                                               THEN @ \cup {r} ELSE @,
                                    !.id = <<id>>, !.result = <<r>>,
                                    !.slept = wrap, !.dup = r \in snow.issued]
    /\ UNCHANGED <<returned, lock, sequenceam, defVars, envVars, page, pageLSN, wal, ckptVars, diskVars, sessVars,
                   covered, crash, nCalls, lastRes, sinceLog, ev>>

\* snowflake_sequenceam_setval; the calls and wraps are counted from here on.
SnowflakeSetval(next, iscalled) ==
    /\ snow' = [SnowflakeInit(0, iscalled) EXCEPT !.count = CounterBits(next),
                                                  !.start = CounterBits(next),
                                                  !.now = snow.now,
                                                  !.machine_id = snow.machine_id,
                                                  !.rel = snow.rel,
                                                  !.buf = [snow.buf EXCEPT !.dirty = TRUE],
                                                  !.onlyNext = FALSE]
    /\ UNCHANGED <<returned, lock, sequenceam, defVars, envVars, page, pageLSN, wal, ckptVars, diskVars, sessVars,
                   covered, crash, nCalls, lastRes, sinceLog, ev>>

\* START WITH values of the snowflake sequences, and the values given to setval.
SnowStarts == {1, SNOWFLAKE_COUNTER_MASK}
SnowSetvals == {0, SNOWFLAKE_COUNTER_MASK - 1, 2 * SNOWFLAKE_COUNTER_MASK + 1}

InitSnowflake ==
    /\ InitLocal({1}, {1}, {SeqForm(1, 1, SessionMax, 1, 1, FALSE)}, {RELPERSISTENCE_UNLOGGED})
    /\ sequenceam = NoRoutine
    /\ lock = NoLocks
    /\ returned = {}
    /\ \E v \in SnowStarts : snow = SnowflakeInit(v, FALSE)

\* Values of snowflake.machine_id (0 .. 1023).
SnowMachines == {0, 5, SNOWFLAKE_MACHINE_ID_MASK}

\* CREATE SEQUENCE .. USING snowflake: with the defaults, descending, or
\* starting at the top of the counter.
SnowCreateOptions ==
    {NoOptions, [NoOptions EXCEPT !.increment = Opt(-1)],
     [NoOptions EXCEPT !.start = Opt(2)],
     [NoOptions EXCEPT !.start = Opt(SNOWFLAKE_COUNTER_MASK - 1)]}

\* The sequence has just been created by DefineSequence, at any wall time.
InitSnowCreate ==
    /\ InitLocal({1}, {1}, {SeqForm(1, 1, SessionMax, 1, 1, FALSE)}, {RELPERSISTENCE_UNLOGGED})
    /\ sequenceam = NoRoutine
    /\ lock = NoLocks
    /\ returned = {}
    /\ \E o \in SnowCreateOptions, m \in SnowMachines, t \in 0..MaxClock :
          LET r == init_params(o, TRUE, seqform[1], 0, FALSE)
          IN /\ r.status = "ok"
             /\ snow = [SnowflakeInit(r.last_value, r.is_called)
                          EXCEPT !.machine_id = m, !.now = t]

NextSnowCreate == snow.calls < MaxFirstCalls /\ SnowflakeNextval

SpecSnowCreate == InitSnowCreate /\ [][NextSnowCreate]_vars

NextSnowflake ==
    \/ SnowflakeNextval
    \/ \E v \in SnowSetvals : snow.calls = 0 /\ snow.onlyNext /\ SnowflakeSetval(v, TRUE)

SpecSnowflake == InitSnowflake /\ [][NextSnowflake]_vars

\* snowflake_sequenceam_init on the relation just made.
SnowflakeAmInit(last_value, is_called) ==
    /\ snow.rel.op = "none"
    /\ snow' = [SnowflakeInitRel(snow.rel, last_value, is_called)
                  EXCEPT !.now = snow.now, !.machine_id = snow.machine_id]
    /\ UNCHANGED <<returned, lock, sequenceam, defVars, envVars, page, pageLSN, wal, ckptVars, diskVars, sessVars,
                   covered, crash, nCalls, lastRes, sinceLog, ev>>

\* snowflake_sequenceam_reset
SnowflakeReset(startv, is_called) ==
    /\ snow.rel.op # "none"
    /\ snow.rel.files < MaxSnowFiles
    /\ snow' = [snow EXCEPT !.count = CounterBits(startv), !.is_called = is_called,
                            !.onlyNext = FALSE,
                            !.buf = FlushRelationBuffers(CounterBits(startv), is_called),
                            !.rel = [fill_snowflake(RelationSetNewRelfilenumber(
                                         snow.rel, snow.rel.relpersistence))
                                       EXCEPT !.op = "reset"]]
    /\ UNCHANGED <<returned, lock, sequenceam, defVars, envVars, page, pageLSN, wal, ckptVars, diskVars, sessVars,
                   covered, crash, nCalls, lastRes, sinceLog, ev>>

\* snowflake_sequenceam_change_persistence: nothing to do.
SnowflakeChangePersistence(newrelpersistence) ==
    /\ snow.rel.op # "none"
    /\ snow' = [snow EXCEPT !.rel.op = "persist"]
    /\ UNCHANGED <<returned, lock, sequenceam, defVars, envVars, page, pageLSN, wal, ckptVars, diskVars, sessVars,
                   covered, crash, nCalls, lastRes, sinceLog, ev>>

\* The relation of a CREATE [TEMPORARY | UNLOGGED] SEQUENCE .. USING snowflake
\* before the AM's init callback has run.
InitSnowRel ==
    /\ InitLocal({1}, {1}, {SeqForm(1, 1, SessionMax, 1, 1, FALSE)}, {RELPERSISTENCE_UNLOGGED})
    /\ sequenceam = NoRoutine
    /\ lock = NoLocks
    /\ returned = {}
    /\ \E p \in {RELPERSISTENCE_PERMANENT, RELPERSISTENCE_UNLOGGED, RELPERSISTENCE_TEMP} :
          snow = [SnowflakeInit(1, FALSE) EXCEPT !.rel = SnowflakeRel(p)]

NextSnowRel ==
    \/ \E v \in SnowStarts : SnowflakeAmInit(v, FALSE)
    \/ snow.rel.op # "none" /\ snow.calls < MaxFirstCalls /\ SnowflakeNextval
    \/ \E v \in SnowSetvals, ic \in BOOLEAN : snow.rel.op # "none" /\ SnowflakeSetval(v, ic)
    \/ \E v \in SnowStarts, ic \in BOOLEAN : SnowflakeReset(v, ic)
    \/ \E p \in {RELPERSISTENCE_PERMANENT, RELPERSISTENCE_UNLOGGED} :
          SnowflakeChangePersistence(p)

SpecSnowRel == InitSnowRel /\ [][NextSnowRel]_vars

\* ------------------------------------------------- snowflake buffer

\* Strategy next calls followed while the buffer may be written and evicted.
MaxEvictCalls == 3

\* The buffer manager writes the dirty buffer of the sequence's page to disk
\* (background writer, checkpoint or a backend in need of a buffer).
SnowflakeFlushBuffer ==
    /\ snow.buf.dirty
    /\ snow' = [snow EXCEPT !.buf = [dirty |-> FALSE,
                                     disk |-> [count |-> snow.count,
                                               is_called |-> snow.is_called]]]
    /\ UNCHANGED <<returned, lock, sequenceam, defVars, envVars, page, pageLSN, wal, ckptVars, diskVars, sessVars,
                   covered, crash, nCalls, lastRes, sinceLog, ev>>

\* The buffer manager gives the clean buffer of the sequence's page to another
\* page without writing it; the following ReadBuffer reads the page from disk.
SnowflakeEvict ==
    /\ ~snow.buf.dirty
    /\ snow' = [snow EXCEPT !.count = snow.buf.disk.count,
                            !.is_called = snow.buf.disk.is_called]
    /\ UNCHANGED <<returned, lock, sequenceam, defVars, envVars, page, pageLSN, wal, ckptVars, diskVars, sessVars,
                   covered, crash, nCalls, lastRes, sinceLog, ev>>

NextSnowEvict ==
    \/ snow.calls < MaxEvictCalls /\ SnowflakeNextval
    \/ \E v \in SnowSetvals : snow.onlyNext /\ SnowflakeSetval(v, TRUE)
    \/ SnowflakeFlushBuffer
    \/ SnowflakeEvict

SpecSnowEvict == InitSnowflake /\ [][NextSnowEvict]_vars

\* snowflake_id_to_int64 applied to the identifier held in snow.id.
SnowflakeEncode ==
    /\ snow.id # NoVal /\ snow.result = NoVal
    /\ snow' = [snow EXCEPT !.result = <<snowflake_id_to_int64(snow.id[1])>>]
    /\ UNCHANGED <<returned, lock, sequenceam, defVars, envVars, page, pageLSN, wal, ckptVars, diskVars, sessVars,
                   covered, crash, nCalls, lastRes, sinceLog, ev>>

\* snowflake_get: the value is taken apart again.
snowflake_get ==
    /\ snow.result # NoVal /\ snow.decoded = NoVal
    /\ snow' = [snow EXCEPT !.decoded = <<int64_to_snowflake_id(snow.result[1])>>]
    /\ UNCHANGED <<returned, lock, sequenceam, defVars, envVars, page, pageLSN, wal, ckptVars, diskVars, sessVars,
                   covered, crash, nCalls, lastRes, sinceLog, ev>>

\* Identifiers whose fields are at, just inside and beyond their widths.
CodecCounts ==
    {0, 1, SNOWFLAKE_COUNTER_MASK, SNOWFLAKE_COUNTER_MASK + 1, 2 * SNOWFLAKE_COUNTER_MASK + 1}
CodecMachines ==
    {0, 5, SNOWFLAKE_MACHINE_ID_MASK, SNOWFLAKE_MACHINE_ID_MASK + 1,
     SNOWFLAKE_MACHINE_ID_MASK + 6}
TimestampTop == 2^(SNOWFLAKE_TIMESTAMP_BITS - SNOWFLAKE_TIMESTAMP_SHIFT)
CodecTimes ==
    {<<0, 0, 0>>, <<1, 0, 0>>, <<Limb - 1, 1, 0>>, <<Limb - 1, TimestampTop - 1, 0>>,
     <<5, TimestampTop, 0>>, <<Limb - 1, Limb - 1, TopLimb - 1>>}
CodecIds == [count : CodecCounts, machine : CodecMachines, time_ms : CodecTimes]

InitCodec ==
    /\ InitLocal({1}, {1}, {SeqForm(1, 1, SessionMax, 1, 1, FALSE)}, {RELPERSISTENCE_UNLOGGED})
    /\ sequenceam = NoRoutine
    /\ lock = NoLocks
    /\ returned = {}
    /\ \E id \in CodecIds : snow = [SnowflakeInit(1, FALSE) EXCEPT !.id = <<id>>]

NextCodec == SnowflakeEncode \/ snowflake_get

SpecCodec == InitCodec /\ [][NextCodec]_vars

\* ------------------------------------------------------- sequence AM API

\* The callbacks of a SequenceAmRoutine that GetSequenceAmRoutine requires.
RequiredCallbacksButReset ==
    {"get_table_am", "init", "nextval", "setval", "get_state", "change_persistence"}

RequiredCallbacks ==
    {"get_table_am", "init", "nextval", "setval", "reset", "get_state",
     "change_persistence"}

\* The sequence_* wrappers, by the callback each one calls.
SequenceWrappers ==
    {"get_table_am", "init", "nextval", "setval", "reset", "get_state",
     "change_persistence"}

\* What an AM handler function can return: NULL, a node of another type, or a
\* SequenceAmRoutine with the callbacks of `set' filled in.
NullRoutine == [tag |-> "NULL", set |-> {}]
OtherNode == [tag |-> "T_TableAmRoutine", set |-> {}]
AmRoutines ==
    {NullRoutine, OtherNode}
        \cup {[tag |-> "T_SequenceAmRoutine", set |-> c] : c \in SUBSET SequenceWrappers}

\* Assert(condition): in a build with assertion checking a condition that does
\* not hold stops the caller; in a build without, nothing is evaluated.
AssertFails(condition) == sequenceam.USE_ASSERT_CHECKING /\ ~condition

\* GetSequenceAmRoutine on a handler that returns routine; on success the
\* relation's rd_sequenceam is the routine.
GetSequenceAmRoutine(routine) ==
    LET status == IF routine.tag # "T_SequenceAmRoutine" THEN "error"
                  ELSE IF \E c \in RequiredCallbacks : AssertFails(c \in routine.set)
                       THEN "assert"
                       ELSE "ok"
    IN  /\ sequenceam' = [sequenceam EXCEPT
                             !.rd_sequenceam = IF status = "ok" THEN <<routine>> ELSE @,
                             !.op = "load", !.handle = <<routine>>, !.status = status]
        /\ UNCHANGED <<returned, lock, defVars, snow, envVars, page, pageLSN, wal, ckptVars, diskVars,
                       sessVars, covered, crash, nCalls, lastRes, sinceLog, ev>>

\* A sequence_* wrapper: rel->rd_sequenceam->callback(..). A null callback is
\* a call through a null pointer.
SequenceWrapper(callback) ==
    /\ sequenceam.rd_sequenceam # NoVal
    /\ sequenceam' = [sequenceam EXCEPT
                         !.op = callback, !.handle = NoVal,
                         !.status = IF callback \in sequenceam.rd_sequenceam[1].set
                                    THEN "ok" ELSE "null"]
    /\ UNCHANGED <<returned, lock, defVars, snow, envVars, page, pageLSN, wal, ckptVars, diskVars,
                   sessVars, covered, crash, nCalls, lastRes, sinceLog, ev>>

\* A server built with or without assertion checking.
InitAmApi ==
    /\ InitLocal({1}, {1}, {SeqForm(1, 1, SessionMax, 1, 1, FALSE)}, {RELPERSISTENCE_UNLOGGED})
    /\ snow = SnowflakeInit(1, FALSE)
    /\ \E b \in BOOLEAN : sequenceam = [NoRoutine EXCEPT !.USE_ASSERT_CHECKING = b]
    /\ lock = NoLocks
    /\ returned = {}

NextAmApi ==
    \/ \E routine \in AmRoutines : GetSequenceAmRoutine(routine)
    \/ \E callback \in SequenceWrappers : SequenceWrapper(callback)

SpecAmApi == InitAmApi /\ [][NextAmApi]_vars

\* ------------------------------------------------- alter by option

\* An ascending sequence over 1 .. SessionMax + 1 that pre-fetches CacheMax
\* values.
AlterForms == { SeqForm(1, 1, SessionMax + 1, 1, CacheMax, FALSE) }

\* ALTER SEQUENCE with one option: OWNED BY, or one of AS (the type the
\* sequence has, its limits not being those of the type), INCREMENT, START,
\* RESTART, MAXVALUE, MINVALUE, CACHE and CYCLE.
AlterOptions ==
    { [NoOptions EXCEPT !.owned_by = Opt("NONE")],
      [NoOptions EXCEPT !.as = Opt("int8")],
      [NoOptions EXCEPT !.increment = Opt(2)],
      [NoOptions EXCEPT !.start = Opt(2)],
      [NoOptions EXCEPT !.restart = OptNull],
      [NoOptions EXCEPT !.maxvalue = Opt(SessionMax)],
      [NoOptions EXCEPT !.minvalue = Opt(0)],
      [NoOptions EXCEPT !.cache = Opt(1)],
      [NoOptions EXCEPT !.cycle = Opt(TRUE)] }

InitAlter == InitSeqs({1, 2}, {1}, AlterForms, {RELPERSISTENCE_UNLOGGED})

NextAlter ==
    \/ \E s \in DOMAIN elm, q \in DOMAIN page : NextvalAction(s, q)
    \/ \E s \in DOMAIN elm, q \in DOMAIN page, o \in AlterOptions : AlterSequence(s, q, o)

SpecAlter == InitAlter /\ [][NextAlter]_vars

\* ------------------------------------------------- buffer content lock

\* New storage files a sequence may be given while its page lock is followed.
MaxLockFiles == 2

\* Strategy calls followed per run.
MaxLockCalls == 4

\* A session that is not inside a strategy call.
NoCall == [op |-> "none", at |-> "idle", tuple |-> NoVal, arg |-> NoVal]

\* Callbacks whose callers hold a relation lock that conflicts with the
\* RowExclusiveLock of nextval, setval and the state functions:
\* AccessExclusiveLock (ResetSequence, SequenceChangePersistence) or
\* ShareRowExclusiveLock (AlterSequence).
RewritingCalls == {"reset", "change_persistence"}

\* The relation lock session s needs for callback op on the sequence can be
\* granted: no other session is inside a call that conflicts with it.
RelationLockGranted(s, op) ==
    \A t \in DOMAIN lock.proc \ {s} :
        IF op \in RewritingCalls THEN lock.proc[t].at = "idle"
        ELSE lock.proc[t].op \notin RewritingCalls

\* LockBuffer in share mode: granted whoever holds the lock.
LockBufferShared(held, s, f) == TRUE

\* LockBuffer(buf, BUFFER_LOCK_EXCLUSIVE) on page 0 of file f can be granted to
\* session s: no session holds the content lock of that buffer.
LockBuffer(held, s, f) == \A h \in held : h[2] # f

\* UnlockReleaseBuffer of page 0 of file f by session s.
UnlockReleaseBuffer(held, s, f) == held \ {<<s, f>>}

\* fill_seq_with_data: page 0 of the new file f of sequence q is initialised
\* with the tuple under the content lock ExtendBufferedRel returns it with, and
\* logged if the relation of that persistence needs WAL.
FillSeqWithData(q, f, persistence, tuple) ==
    /\ relfilenode' = [relfilenode EXCEPT ![q] = f]
    /\ relpersistence' = [relpersistence EXCEPT ![q] = persistence]
    /\ page' = [page EXCEPT ![q] = tuple]
    /\ wal' = IF RelationNeedsWAL(persistence)
              THEN Append(wal, XlSeqLocalRec(q, f, tuple)) ELSE wal
    /\ pageLSN' = [pageLSN EXCEPT ![q] = IF RelationNeedsWAL(persistence)
                                         THEN Len(wal') ELSE 0]
    /\ covered' = IF RelationNeedsWAL(persistence) THEN Append(covered, <<>>)
                                                   ELSE covered

LockEvent(s, q, op, status) ==
    [NoEvent EXCEPT !.op = op, !.s = s, !.q = q, !.status = status]

\* Session s enters a strategy callback of sequence q, holding the relation
\* lock its caller took.
StrategyCall(s, q, op, arg) ==
    /\ lock.proc[s].at = "idle"
    /\ nCalls < MaxLockCalls
    /\ RelationLockGranted(s, op)
    /\ op \in RewritingCalls => relfilenode[q] <= MaxLockFiles
    /\ lock' = [lock EXCEPT !.proc[s] = [op |-> op, at |-> "read", tuple |-> NoVal,
                                         arg |-> arg]]
    /\ nCalls' = nCalls + 1
    /\ ev' = LockEvent(s, q, op, "called")
    /\ UNCHANGED <<returned, sequenceam, defVars, snow, envVars, page, pageLSN, wal, ckptVars,
                   diskVars, sessVars, covered, crash, lastRes, sinceLog>>

\* read_seq_tuple: the buffer of page 0 is locked exclusively once no session
\* holds its lock, then the magic word is checked; on a bad magic word the
\* error is raised with the lock held.
ReadSeqTuple(s, q) ==
    /\ lock.proc[s].at = "read"
    /\ LockBuffer(lock.held, s, relfilenode[q])
    /\ LET bad == lock.magic[relfilenode[q]] # SEQ_LOCAL_MAGIC
       IN  /\ lock' = [lock EXCEPT !.held = @ \cup {<<s, relfilenode[q]>>},
                                   !.proc[s].at = IF bad THEN "error" ELSE "locked",
                                   !.proc[s].tuple = IF bad THEN NoVal ELSE <<page[q]>>]
           /\ ev' = LockEvent(s, q, lock.proc[s].op, IF bad THEN "badmagic" ELSE "locked")
    /\ UNCHANGED <<returned, sequenceam, defVars, snow, envVars, page, pageLSN, wal, ckptVars,
                   diskVars, sessVars, covered, crash, nCalls, lastRes, sinceLog>>

\* seq_local_nextval after read_seq_tuple: the values are fetched from the
\* tuple read; past the limit the error is raised with the lock held, otherwise
\* the page is updated (and logged) and the buffer unlocked.
LockedNextval(s, q) ==
    /\ lock.proc[s].at = "locked" /\ lock.proc[s].op = "next"
    /\ LET r == SeqLocalNextval(lock.proc[s].tuple[1], pageLSN[q], RedoRecPtr,
                                relpersistence[q], seqform[q])
       IN  IF r.error
           THEN /\ lock' = [lock EXCEPT !.proc[s].at = "error"]
                /\ ev' = LockEvent(s, q, "next", "limit")
                /\ UNCHANGED <<page, pageLSN, wal, covered, lastRes>>
           ELSE /\ AmApply(q, r)
                /\ lastRes' = [lastRes EXCEPT ![q] = <<r.result>>]
                /\ lock' = [lock EXCEPT
                              !.held = UnlockReleaseBuffer(@, s, relfilenode[q]),
                              !.proc[s] = NoCall]
                /\ ev' = [LockEvent(s, q, "next", "ok") EXCEPT !.result = r.result]
    /\ UNCHANGED <<returned, sequenceam, defVars, snow, envVars, ckptVars, diskVars, sessVars,
                   crash, nCalls, sinceLog>>

\* seq_local_setval after read_seq_tuple.
LockedSetval(s, q) ==
    /\ lock.proc[s].at = "locked" /\ lock.proc[s].op = "set"
    /\ SeqLocalSetval(q, lock.proc[s].arg[1], lock.proc[s].arg[2])
    /\ lastRes' = [lastRes EXCEPT ![q] = NoVal]
    /\ lock' = [lock EXCEPT !.held = UnlockReleaseBuffer(@, s, relfilenode[q]),
                            !.proc[s] = NoCall]
    /\ ev' = LockEvent(s, q, "set", "ok")
    /\ UNCHANGED <<returned, sequenceam, defVars, snow, envVars, ckptVars, diskVars, sessVars,
                   crash, nCalls, sinceLog>>

\* seq_local_get_state after read_seq_tuple.
LockedGetState(s, q) ==
    /\ lock.proc[s].at = "locked" /\ lock.proc[s].op = "get_state"
    /\ lock' = [lock EXCEPT !.held = UnlockReleaseBuffer(@, s, relfilenode[q]),
                            !.proc[s] = NoCall]
    /\ ev' = [LockEvent(s, q, "get_state", "ok")
                EXCEPT !.result = lock.proc[s].tuple[1].last_value,
                       !.iscalled = lock.proc[s].tuple[1].is_called]
    /\ UNCHANGED <<returned, sequenceam, defVars, snow, envVars, page, pageLSN, wal, ckptVars,
                   diskVars, sessVars, covered, crash, nCalls, lastRes, sinceLog>>

\* seq_local_change_persistence after read_seq_tuple: the new file is created
\* and filled with the tuple read while the old page is still locked.
LockedChangePersistence(s, q) ==
    /\ lock.proc[s].at = "locked" /\ lock.proc[s].op = "change_persistence"
    /\ FillSeqWithData(q, relfilenode[q] + 1, lock.proc[s].arg[1], lock.proc[s].tuple[1])
    /\ lock' = [lock EXCEPT !.held = UnlockReleaseBuffer(@, s, relfilenode[q]),
                            !.proc[s] = NoCall]
    /\ ev' = LockEvent(s, q, "change_persistence", "ok")
    /\ UNCHANGED <<returned, sequenceam, seqform, snow, envVars, ckptVars, diskVars, sessVars,
                   crash, nCalls, lastRes, sinceLog>>

\* seq_local_reset after read_seq_tuple: the tuple is copied and the old page
\* unlocked.
LockedResetCopy(s, q) ==
    /\ lock.proc[s].at = "locked" /\ lock.proc[s].op = "reset"
    /\ lock' = [lock EXCEPT !.held = UnlockReleaseBuffer(@, s, relfilenode[q]),
                            !.proc[s].at = "copied"]
    /\ ev' = LockEvent(s, q, "reset", "copied")
    /\ UNCHANGED <<returned, sequenceam, defVars, snow, envVars, page, pageLSN, wal, ckptVars,
                   diskVars, sessVars, covered, crash, nCalls, lastRes, sinceLog>>

\* seq_local_reset after the copy: the copy is modified, the relation gets a
\* new file and the copy is installed in it.
LockedResetFill(s, q) ==
    /\ lock.proc[s].at = "copied"
    /\ LET a == lock.proc[s].arg
           old == lock.proc[s].tuple[1]
       IN  FillSeqWithData(q, relfilenode[q] + 1, relpersistence[q],
                           SeqTuple(a[1], IF a[3] THEN 0 ELSE old.log_cnt, a[2]))
    /\ lastRes' = [lastRes EXCEPT ![q] = NoVal]
    /\ lock' = [lock EXCEPT !.proc[s] = NoCall]
    /\ ev' = LockEvent(s, q, "reset", "ok")
    /\ UNCHANGED <<returned, sequenceam, seqform, snow, envVars, ckptVars, diskVars, sessVars,
                   crash, nCalls, sinceLog>>

\* The error raised inside a strategy call reaches the transaction's error
\* cleanup, which releases every buffer lock the session holds.
AbortCleanup(s, q) ==
    /\ lock.proc[s].at = "error"
    /\ lock' = [lock EXCEPT !.held = {h \in @ : h[1] # s}, !.proc[s] = NoCall]
    /\ ev' = LockEvent(s, q, lock.proc[s].op, "aborted")
    /\ UNCHANGED <<returned, sequenceam, defVars, snow, envVars, page, pageLSN, wal, ckptVars,
                   diskVars, sessVars, covered, crash, nCalls, lastRes, sinceLog>>

\* The step session s makes once its call holds, or no longer needs, the lock.
LockedStep(s, q) ==
    \/ LockedNextval(s, q)
    \/ LockedSetval(s, q)
    \/ LockedGetState(s, q)
    \/ LockedChangePersistence(s, q)
    \/ LockedResetCopy(s, q)
    \/ LockedResetFill(s, q)
    \/ AbortCleanup(s, q)

\* An ascending sequence over 1 .. 2 that pre-fetches one value.
LockForms == { SeqForm(1, 1, 2, 1, 1, FALSE) }

\* The arguments the callers give: setval(min, false); the restart of
\* ResetSequence and the rewrite of AlterSequence at the start value; SET
\* LOGGED and SET UNLOGGED.
LockCalls(q) ==
    {<<"next", NoVal>>, <<"get_state", NoVal>>,
     <<"set", <<seqform[q].minv, FALSE>>>>,
     <<"reset", <<seqform[q].start, FALSE, TRUE>>>>,
     <<"reset", <<seqform[q].start, TRUE, FALSE>>>>,
     <<"change_persistence", <<RELPERSISTENCE_PERMANENT>>>>,
     <<"change_persistence", <<RELPERSISTENCE_UNLOGGED>>>>}

\* Two sessions on one sequence that seq_local_init has filled; the page of any
\* file carries the local magic word, or that of another access method.
InitLock ==
    /\ InitLocal({1, 2}, {1}, LockForms, {RELPERSISTENCE_UNLOGGED})
    /\ snow = SnowflakeInit(1, FALSE)
    /\ sequenceam = NoRoutine
    /\ returned = {}
    /\ \E m \in {SEQ_LOCAL_MAGIC, SNOWFLAKE_MAGIC} :
          lock = [held |-> {}, magic |-> [f \in 1..(MaxLockFiles + 1) |-> m],
                  proc |-> [s \in {1, 2} |-> NoCall]]

NextLock ==
    \/ \E s \in DOMAIN lock.proc, q \in DOMAIN page :
          \E c \in LockCalls(q) : StrategyCall(s, q, c[1], c[2])
    \/ \E s \in DOMAIN lock.proc, q \in DOMAIN page : ReadSeqTuple(s, q)
    \/ \E s \in DOMAIN lock.proc, q \in DOMAIN page : LockedStep(s, q)

SpecLock == InitLock /\ [][NextLock]_vars

\* The sessions are scheduled fairly, and a session waiting for a buffer lock
\* that is released again and again gets it.
SpecLockFair ==
    /\ SpecLock
    /\ \A s \in {1, 2} : WF_vars(LockedStep(s, 1)) /\ SF_vars(ReadSeqTuple(s, 1))

\* ------------------------------------------------- WAL cover

\* Strategy calls followed per run, and new files the sequence may be given.
MaxCoverCalls == 4
MaxCoverFiles == 2

\* Ascending sequences over 1 .. FarMax that pre-fetch one or two values.
CoverForms == { SeqForm(1, 1, FarMax, 1, c, FALSE) : c \in {1, 2} }

\* seq_local_reset as its callers issue it: ResetSequence and ALTER SEQUENCE ..
\* RESTART (start value, not called, state reset), and the other rewriting
\* alters, which keep the value read by seq_local_get_state and reset the
\* state or not (START, AS).
CoverResets(q) ==
    { <<seqform[q].start, FALSE, TRUE>>,
      <<page[q].last_value, page[q].is_called, TRUE>>,
      <<page[q].last_value, page[q].is_called, FALSE>> }

\* A strategy reset call (seq_local_reset) on sequence q.
AmReset(q, startv, is_called, reset_state) ==
    /\ nCalls < MaxCoverCalls
    /\ crash.phase = "up"
    /\ relfilenode[q] <= MaxCoverFiles
    /\ SeqLocalReset(q, startv, is_called, reset_state)
    /\ ev' = [NoEvent EXCEPT !.op = "reset", !.q = q, !.arg = startv,
                             !.iscalled = is_called, !.before = page[q],
                             !.fresh = reset_state]
    /\ nCalls' = nCalls + 1
    /\ lastRes' = IF startv = page[q].last_value /\ is_called = page[q].is_called
                  THEN lastRes ELSE [lastRes EXCEPT ![q] = NoVal]
    /\ UNCHANGED <<returned, lock, sequenceam, seqform, relpersistence, snow, envVars, ckptVars,
                   diskVars, sessVars, crash, sinceLog>>

\* A strategy change_persistence call (seq_local_change_persistence) on
\* sequence q: the tuple read is installed in a new file of the new
\* persistence.
AmChangePersistence(q, newrelpersistence) ==
    /\ nCalls < MaxCoverCalls
    /\ crash.phase = "up"
    /\ relfilenode[q] <= MaxCoverFiles
    /\ newrelpersistence # relpersistence[q]
    /\ FillSeqWithData(q, GetNewRelFileNumber(q), newrelpersistence, page[q])
    /\ ev' = [NoEvent EXCEPT !.op = "change_persistence", !.q = q, !.before = page[q]]
    /\ nCalls' = nCalls + 1
    /\ UNCHANGED <<returned, lock, sequenceam, seqform, snow, envVars, ckptVars, diskVars, sessVars,
                   crash, lastRes, sinceLog>>

InitWalCover ==
    InitSeqs({1}, {1}, CoverForms, {RELPERSISTENCE_PERMANENT, RELPERSISTENCE_UNLOGGED})

NextWalCover ==
    \/ \E q \in DOMAIN page : nCalls < MaxCoverCalls /\ AmNextval(q)
    \/ \E q \in DOMAIN page, ic \in BOOLEAN :
          nCalls < MaxCoverCalls /\ crash.phase = "up" /\ AmSetval(q, seqform[q].minv + 1, ic)
    \/ \E q \in DOMAIN page : \E r \in CoverResets(q) : AmReset(q, r[1], r[2], r[3])
    \/ \E q \in DOMAIN page, p \in {RELPERSISTENCE_PERMANENT, RELPERSISTENCE_UNLOGGED} :
          AmChangePersistence(q, p)
    \/ CheckpointStart
    \/ CheckpointSync
    \/ CheckpointEnd
    \/ XLogFlush
    \/ Crash

SpecWalCover == InitWalCover /\ [][NextWalCover]_vars

\* ------------------------------------------------- log count

\* Sequences that stay far from their limit (1 .. FarMax) and pre-fetch
\* SEQ_LOCAL_LOG_VALS values or one more, and sequences that reach it within a
\* call (1 .. SmallMax): ascending without CYCLE, descending with it.
LogCntForms ==
    { SeqForm(1, 1, FarMax, 1, SEQ_LOCAL_LOG_VALS, FALSE),
      SeqForm(1, 1, FarMax, 1, SEQ_LOCAL_LOG_VALS + 1, FALSE),
      SeqForm(1, 1, SmallMax, 1, SEQ_LOCAL_LOG_VALS + 1, FALSE),
      SeqForm(1, 1, SmallMax, 1, 1, FALSE),
      SeqForm(-1, 1, SmallMax, SmallMax, 2, TRUE) }

InitLogCnt ==
    InitSeqs({1}, {1}, LogCntForms, {RELPERSISTENCE_PERMANENT, RELPERSISTENCE_UNLOGGED})

\* The callbacks that write the tuple, and a checkpoint starting between them:
\* it moves the redo pointer next compares the page's LSN with.
NextLogCnt ==
    \/ \E q \in DOMAIN page : nCalls < MaxCoverCalls /\ AmNextval(q)
    \/ \E q \in DOMAIN page, ic \in BOOLEAN :
          nCalls < MaxCoverCalls /\ AmSetval(q, seqform[q].minv + 1, ic)
    \/ \E q \in DOMAIN page : \E r \in CoverResets(q) : AmReset(q, r[1], r[2], r[3])
    \/ \E q \in DOMAIN page, p \in {RELPERSISTENCE_PERMANENT, RELPERSISTENCE_UNLOGGED} :
          AmChangePersistence(q, p)
    \/ CheckpointStart

SpecLogCnt == InitLogCnt /\ [][NextLogCnt]_vars

\* ------------------------------------------------- integer range

\* The integer type of the overflow runs: MinInt64 .. MaxInt64.
MinInt64 == 0 - MaxInt64 - 1

FitsInt64(x) == x >= MinInt64 /\ x <= MaxInt64

\* Every definition with min < max in the integer type and a nonzero increment
\* of it, with and without CYCLE, that pre-fetches two values.
WideForms ==
    { f \in { SeqForm(k, mn, mx, IF k > 0 THEN mn ELSE mx, 2, cy) :
                k \in (MinInt64..MaxInt64) \ {0},
                mn \in MinInt64..MaxInt64, mx \in MinInt64..MaxInt64, cy \in BOOLEAN } :
        ValidForm(f) }

InitWide == InitSeqs({1}, {1}, WideForms, {RELPERSISTENCE_PERMANENT})

\* A first call of set puts any last_value of [min, max] on the page, next
\* runs from it.
NextWide ==
    \/ \E q \in DOMAIN page : nCalls < MaxSetCalls /\ AmNextval(q)
    \/ \E q \in DOMAIN page, ic \in BOOLEAN :
          \E v \in seqform[q].minv..seqform[q].maxv : nCalls = 0 /\ AmSetval(q, v, ic)

SpecWide == InitWide /\ [][NextWide]_vars

\* ------------------------------------------------- values returned

\* Sequences without CYCLE over 1 .. CacheMax * SessionMax, ascending by one or
\* two and descending, that pre-fetch one to CacheMax values.
UniqueForms ==
    { SeqForm(k, 1, CacheMax * SessionMax, IF k > 0 THEN 1 ELSE CacheMax * SessionMax,
              c, FALSE) : k \in {1, 2, -1}, c \in 1..CacheMax }

\* nextval of session s on sequence q, the value it returns being recorded.
NextvalReturned(s, q) ==
    /\ Nextval(s, q)
    /\ returned' = IF ev'.status = "ok" THEN returned \cup {<<q, ev'.result>>}
                   ELSE returned
    /\ UNCHANGED <<lock, sequenceam, defVars, snow, envVars, ckptVars, diskVars, crash,
                   nCalls, lastRes>>

InitUnique == InitSeqs({1, 2, 3}, {1}, UniqueForms, {RELPERSISTENCE_UNLOGGED})

NextUnique == \E s \in DOMAIN elm, q \in DOMAIN page : NextvalReturned(s, q)

SpecUnique == InitUnique /\ [][NextUnique]_vars

\* ------------------------------------------------- setval of another session

\* Two sessions call nextval on a sequence that pre-fetches CacheMax values;
\* session 2 also calls setval.
InitSetOther == InitSeqs({1, 2}, {1}, CacheForms, {RELPERSISTENCE_UNLOGGED})

NextSetOther ==
    \/ \E s \in DOMAIN elm, q \in DOMAIN page : NextvalReturned(s, q)
    \/ \E q \in DOMAIN page, ic \in BOOLEAN :
          \E v \in {seqform[q].minv + 1, seqform[q].maxv - 1} : Setval(2, q, v, ic)

SpecSetOther == InitSetOther /\ [][NextSetOther]_vars

\* ------------------------------------------------- session assertions

\* An ascending sequence over 1 .. SessionMax that pre-fetches two values.
AssertForms == { SeqForm(1, 1, SessionMax, 1, 2, FALSE) }

\* ALTER SEQUENCE .. INCREMENT -1 and .. OWNED BY.
AssertOptions ==
    { [NoOptions EXCEPT !.increment = Opt(-1)], [NoOptions EXCEPT !.owned_by = Opt("NONE")] }

\* One session and two sequences.
InitAsserts == InitSeqs({1}, {1, 2}, AssertForms, {RELPERSISTENCE_UNLOGGED})

\* Every operation that reads or writes a session's entries and its last-used
\* pointer.
NextAsserts ==
    \/ \E s \in DOMAIN elm, q \in DOMAIN page : NextvalAction(s, q)
    \/ \E s \in DOMAIN elm, q \in DOMAIN page :
          \E ic \in BOOLEAN : Setval(s, q, seqform[q].minv + 1, ic)
    \/ \E s \in DOMAIN elm, q \in DOMAIN page : Currval(s, q)
    \/ \E s \in DOMAIN elm : Lastval(s)
    \/ \E s \in DOMAIN elm : ResetSequence(s, 1)
    \/ \E s \in DOMAIN elm, o \in AssertOptions : AlterSequence(s, 1, o)
    \/ \E s \in DOMAIN elm : ResetSequenceCaches(s)

SpecAsserts == InitAsserts /\ [][NextAsserts]_vars

\* ------------------------------------------------- claims on the strategy
\* v + incby lies beyond the limit of the sequence's direction.
PassesLimit(v, f) == IF f.incby > 0 THEN v + f.incby > f.maxv ELSE v + f.incby < f.minv

InRange(v, f) == f.minv <= v /\ v <= f.maxv

\* The definition of the end-to-end scenarios: start 1, min 1, max 3, increment 1,
\* cache 1.
ScenarioForm(cycle) == SeqForm(1, 1, 3, 1, 1, cycle)

\* C1: on a non-cycling ascending sequence with increment k, every successful
\* strategy next call, in page-lock order, returns at least k more than the
\* previous successful call and never more than max.
C1_AscendingReturns ==
    (ev.op = "next" /\ ev.status = "ok" /\ seqform[1].incby > 0 /\ ~seqform[1].cycle) =>
        /\ ev.result <= seqform[1].maxv
        /\ ev.last <= seqform[1].maxv
        /\ ev.prev # NoVal => ev.result >= ev.prev[1] + seqform[1].incby

C1_Witness ==
    /\ ev.op = "next" /\ ev.status = "ok" /\ ev.prev # NoVal
    /\ seqform[1].incby = 2 /\ ~seqform[1].cycle /\ seqform[1].cache = 3
    /\ ev.result = ev.prev[1] + 6 /\ nCkpt > 0

\* C3: on a non-cycling sequence a next call fails with the limit error exactly
\* when is_called is set and last_value + increment passes the limit; the
\* failing call leaves the page tuple unchanged and every later call fails too.
\* The scenario (1, 1, 3, 1, 1, no cycle) returns 1, 2, 3 and then fails.
C3_LimitState ==
    (ev.op = "next" /\ ~seqform[1].cycle) =>
        /\ ev.status = "limit" <=>
               (ev.before.is_called /\ PassesLimit(ev.before.last_value, seqform[1]))
        /\ ev.status = "limit" => page[1] = ev.before
        /\ seqform[1] = ScenarioForm(FALSE) =>
               /\ nCalls \in 1..3 => (ev.status = "ok" /\ ev.result = nCalls)
               /\ nCalls > 3 => ev.status = "limit"

C3_LimitExceeded ==
    /\ [](C3_LimitState)
    /\ [][(ev.op = "next" /\ ev.status = "limit" /\ nCalls' = nCalls + 1)
             => (ev'.status = "limit" /\ page' = page)]_vars

C3_Witness ==
    /\ seqform[1] = ScenarioForm(FALSE) /\ nCalls = 5
    /\ ev.op = "next" /\ ev.status = "limit" /\ page[1] = SeqTuple(3, 0, TRUE)

\* C4: on a cycling sequence every next call succeeds with values in
\* [min, max]; a call that finds the next value beyond the limit restarts at
\* min (ascending) or max (descending); otherwise the result moves strictly in
\* the sequence's direction.  The scenario (1, 1, 3, 1, 1, cycle) returns
\* 1, 2, 3, 1, 2.
C4_Cycling ==
    (ev.op = "next" /\ seqform[1].cycle) =>
        LET wrap == ev.before.is_called /\ PassesLimit(ev.before.last_value, seqform[1])
        IN  /\ ev.status = "ok"
            /\ InRange(ev.result, seqform[1]) /\ InRange(ev.last, seqform[1])
            /\ wrap => ev.result = (IF seqform[1].incby > 0 THEN seqform[1].minv
                                                         ELSE seqform[1].maxv)
            /\ (~wrap /\ ev.prev # NoVal) =>
                   (IF seqform[1].incby > 0 THEN ev.result > ev.prev[1]
                                         ELSE ev.result < ev.prev[1])
            /\ (~wrap /\ ev.result # ev.last) =>
                   (IF seqform[1].incby > 0 THEN ev.last > ev.result
                                         ELSE ev.last < ev.result)
            /\ seqform[1] = ScenarioForm(TRUE) =>
                   /\ nCalls \in 1..3 => ev.result = nCalls
                   /\ nCalls \in 4..6 => ev.result = nCalls - 3

C4_Witness ==
    /\ seqform[1] = ScenarioForm(TRUE) /\ nCalls = 5
    /\ ev.op = "next" /\ ev.result = 2 /\ ev.prev = <<1>>

C4_WitnessDescending ==
    /\ seqform[1].cycle /\ seqform[1].incby < 0 /\ seqform[1].start # seqform[1].maxv
    /\ ev.op = "next" /\ ev.before.is_called
    /\ PassesLimit(ev.before.last_value, seqform[1]) /\ ev.result = seqform[1].maxv

\* ---------------------------------------------------- claims on recovery
\* C2: after a crash and the replay of a WAL prefix, the first next call on an
\* ascending non-cycling sequence returns a value greater than every value
\* handed out before the crash under a WAL record that lies in the prefix.
C2_RecoveryPastDurable ==
    (crash.phase = "first" /\ ev.status = "ok" /\ seqform[1].incby > 0
        /\ crash.durable # NoVal) => ev.result > crash.durable[1]

C2_Witness ==
    /\ crash.phase = "first" /\ ev.status = "ok" /\ seqform[1].incby > 0
    /\ crash.durable # NoVal /\ ev.result > crash.durable[1]
    /\ crash.prefix = crash.redo /\ nCkpt > 0 /\ crash.before.log_cnt > 0

\* A crash that loses the tail of the WAL: values are handed out again.
C2_WitnessLostTail ==
    /\ crash.phase = "first" /\ ev.status = "ok" /\ seqform[1].incby > 0
    /\ crash.durable # NoVal /\ crash.prefix < Len(covered)
    /\ ev.result <= crash.before.last_value

\* C5: the values skipped by a crash, between the last value reserved before
\* it and the first value returned after recovery, number at most the page's
\* log_cnt at the crash, which is never more than SEQ_LOCAL_LOG_VALS.
C5_SkippedAtMostPrelogged ==
    /\ \A q \in DOMAIN page : page[q].log_cnt \in 0..SEQ_LOCAL_LOG_VALS
    /\ (crash.phase = "first" /\ ev.status = "ok" /\ crash.before.is_called) =>
           LET k == seqform[1].incby
               dist == IF k > 0 THEN ev.result - crash.before.last_value
                                ELSE crash.before.last_value - ev.result
               step == IF k > 0 THEN k ELSE 0 - k
           IN  dist <= (crash.before.log_cnt + 1) * step

C5_Witness ==
    /\ crash.phase = "first" /\ ev.status = "ok" /\ crash.before.is_called
    /\ crash.before.log_cnt = SEQ_LOCAL_LOG_VALS /\ seqform[1].incby = 2
    /\ ev.result = crash.before.last_value + (SEQ_LOCAL_LOG_VALS + 1) * 2

\* ------------------------------------------------ claims on the WAL rate
\* The WAL record before the last and the last one both pre-logged their full
\* SEQ_LOCAL_LOG_VALS values: the sequence is far from its limit.
FarFromLimit(q) ==
    /\ Len(wal) >= 2
    /\ wal[Len(wal) - 1].tuple.last_value + seqform[q].incby <= seqform[q].maxv
    /\ wal[Len(wal)].tuple.last_value + seqform[q].incby <= seqform[q].maxv

\* A nextval call that wrote a WAL record in steady state: not the first of
\* the sequence, and far from the limit.
SteadyLogged ==
    /\ ev.op = "nextval" /\ ev.status = "ok" /\ ev.logit
    /\ Len(wal) >= 4 /\ FarFromLimit(ev.q)

\* C6 as stated: one WAL record per N + SEQ_LOCAL_LOG_VALS nextval calls, for
\* every cache size N.
C6_Original == SteadyLogged => ev.period = seqform[ev.q].cache + SEQ_LOCAL_LOG_VALS

\* C6 as amended: with cache = N, one WAL record is written per
\* N * (1 + SEQ_LOCAL_LOG_VALS div N) nextval calls; this is N + SEQ_LOCAL_LOG_VALS
\* exactly when N divides SEQ_LOCAL_LOG_VALS.
C6_WalPeriod ==
    SteadyLogged =>
        LET n == seqform[ev.q].cache
        IN  /\ ev.period = n * (1 + (SEQ_LOCAL_LOG_VALS \div n))
            /\ (ev.period = n + SEQ_LOCAL_LOG_VALS) <=> (SEQ_LOCAL_LOG_VALS % n = 0)

C6_Witness == SteadyLogged /\ seqform[ev.q].cache = 3 /\ ev.period = 33

C6_WitnessDivides == SteadyLogged /\ seqform[ev.q].cache = 2 /\ ev.period = 34

\* The state right after the first nextval on the fresh sequence with cache 5.
FirstNextCache5 ==
    /\ seqform[1].cache = 5 /\ seqform[1].start = 1 /\ seqform[1].incby = 1
    /\ ev.op = "nextval" /\ ev.status = "ok" /\ ev.amcall /\ ev.result = 1
    /\ sinceLog = 1 /\ elm[1][1].last = 1

\* C7 as stated: the first next leaves log_cnt at SEQ_LOCAL_LOG_VALS + 4 = 36 and
\* writes one WAL record holding (37, is_called, log_cnt 0).
C7_Original ==
    FirstNextCache5 =>
        /\ page[1].log_cnt = SEQ_LOCAL_LOG_VALS + 4
        /\ Len(wal) = 2 /\ wal[2].tuple = SeqTuple(37, 0, TRUE)

\* C7 as amended: the first next leaves the page at (last_value 5, is_called,
\* log_cnt SEQ_LOCAL_LOG_VALS = 32), the 4 pre-fetched values having been
\* taken off the 36 fetched, and writes exactly one WAL record, which holds
\* (last_value 37, is_called, log_cnt 0).
C7_FirstNext ==
    FirstNextCache5 =>
        /\ page[1] = SeqTuple(5, SEQ_LOCAL_LOG_VALS, TRUE)
        /\ Len(wal) = 2 /\ wal[2].tuple = SeqTuple(37, 0, TRUE)
        /\ ev.logit

C7_Witness == FirstNextCache5 /\ page[1].log_cnt = 32 /\ elm[1][1].cached = 5

\* ------------------------------------------------ claims on the sessions
\* What currval_oid returns to session s for sequence q once it is defined.
CurrvalOf(s, q) == elm[s][q].last

\* C8: currval returns the value of the session's latest nextval on the
\* sequence (no setval(.., true) on it since), and lastval returns the currval
\* of the sequence of the session's latest nextval, also when that nextval was
\* served from the session cache.
C8_CurrvalLastval ==
    /\ (ev.op = "currval" /\ hist[ev.s].val[ev.q] # NoVal) =>
           (ev.status = "ok" /\ ev.result = hist[ev.s].val[ev.q][1])
    /\ (ev.op = "lastval" /\ hist[ev.s].seq # 0) =>
           (ev.status = "ok" /\ ev.result = CurrvalOf(ev.s, hist[ev.s].seq))
    /\ (ev.op = "nextval" /\ ev.status = "ok") =>
           (ev.result = CurrvalOf(ev.s, ev.q) /\ elm[ev.s][ev.q].last_valid)

C8_Witness ==
    /\ ev.op = "lastval" /\ ev.status = "ok"
    /\ hist[1].seq = 1 /\ hist[1].fromCache
    /\ hist[1].val[1] # NoVal /\ hist[1].val[2] # NoVal
    /\ ev.result = hist[1].val[1][1] /\ ev.result # hist[1].val[2][1]

C8_WitnessCurrval ==
    /\ ev.op = "currval" /\ ev.status = "ok" /\ ev.q = 1
    /\ hist[1].seq = 1 /\ hist[1].fromCache /\ ev.result = hist[1].val[1][1]

\* C9: the first nextval on a sequence after ResetSequence, by any session,
\* returns the sequence's start value, also when the session held pre-fetched
\* values.
C9_FirstNextAfterReset ==
    (ev.op = "nextval" /\ ev.fresh) =>
        (ev.status = "ok" /\ ev.amcall /\ ev.result = seqform[ev.q].start)

C9_Witness ==
    /\ ev.op = "nextval" /\ ev.fresh /\ ev.hadCache /\ ev.s = 2
    /\ ev.result = seqform[ev.q].start /\ elm[1][1].filenumber = 1

\* C10 as stated: after setval(v, true), currval returns v and nextval returns
\* v + k, for every v that setval accepts.
C10_Original ==
    (ev.afterSet # NoVal /\ ~seqform[ev.q].cycle) =>
        /\ ev.op = "currval" => (ev.status = "ok" /\ ev.result = ev.afterSet[1])
        /\ ev.op = "nextval" =>
               (ev.status = "ok" /\ ev.result = ev.afterSet[1] + seqform[ev.q].incby)

\* C10 as amended: after setval(v, true), currval returns v; nextval returns
\* v + k when v + k is within [min, max] and fails with the limit error when
\* v + k passes the limit.
C10_SetThenNext ==
    (ev.afterSet # NoVal /\ ~seqform[ev.q].cycle) =>
        /\ ev.op = "currval" => (ev.status = "ok" /\ ev.result = ev.afterSet[1])
        /\ ev.op = "nextval" =>
               IF PassesLimit(ev.afterSet[1], seqform[ev.q])
               THEN ev.status = "limit"
               ELSE (ev.status = "ok" /\ ev.amcall
                     /\ ev.result = ev.afterSet[1] + seqform[ev.q].incby)

C10_Witness ==
    /\ ev.op = "nextval" /\ ev.afterSet # NoVal /\ ev.amcall
    /\ seqform[ev.q].incby = 2 /\ ev.status = "ok" /\ ev.result = ev.afterSet[1] + 2

C10_WitnessLimit ==
    /\ ev.op = "nextval" /\ ev.afterSet = <<seqform[ev.q].maxv>>
    /\ seqform[ev.q].incby > 0 /\ ev.status = "limit"

\* C11: setval(v, false) followed by the same session's nextval returns v,
\* through a strategy call, whatever the session had pre-fetched before.
C11_UnsetThenNext ==
    (ev.op = "nextval" /\ ev.afterUnset # NoVal) =>
        (ev.status = "ok" /\ ev.amcall /\ ev.result = ev.afterUnset[1])

C11_Witness ==
    /\ ev.op = "nextval" /\ ev.afterUnset # NoVal /\ ev.afterUnset[2]
    /\ ev.status = "ok" /\ ev.result = ev.afterUnset[1]
    /\ ev.result = seqform[ev.q].minv /\ seqform[ev.q].incby > 0

C12_SetvalState ==
    (ev.op = "setval" /\ ev.status = "ok") =>
        LET e == elm[ev.s][ev.q]
        IN  /\ page[ev.q] = SeqTuple(ev.arg, 0, ev.iscalled)
            /\ e.cached = e.last
            /\ ev.iscalled => (e.last = ev.arg /\ e.last_valid)

\* What a setval step leaves alone.
C12_SetvalStep ==
    ev'.op = "setval" =>
        LET e0 == elm[ev'.s][ev'.q]
            e1 == elm'[ev'.s][ev'.q]
        IN  /\ (ev'.status = "ok" /\ ~ev'.iscalled) =>
                   (e1.last = e0.last /\ e1.last_valid = e0.last_valid)
            /\ ev'.status # "ok" =>
                   /\ ev'.status = "outofrange"
                   /\ ~InRange(ev'.arg, seqform[ev'.q])
                   /\ e1.last = e0.last /\ e1.last_valid = e0.last_valid
                   /\ e1.cached = e0.cached
                   /\ page' = page /\ wal' = wal
            /\ ev'.status = "ok" => InRange(ev'.arg, seqform[ev'.q])

C12_WitnessOutOfRange ==
    /\ ev.op = "setval" /\ ev.status = "outofrange" /\ ev.arg = seqform[ev.q].maxv + 1
    /\ elm[ev.s][ev.q].last # elm[ev.s][ev.q].cached

\* The session's entry for q holds a currval: the session has called nextval
\* or setval(.., true) on q with success since it began or last discarded.
OwnDefined(s, q) == hist[s].own[q] # NoVal

\* When currval and lastval fail.
C13_NotDefinedState ==
    /\ ev.op = "currval" =>
           /\ ev.status \in {"ok", "notdefined"}
           /\ (ev.status = "notdefined") <=> ~OwnDefined(ev.s, ev.q)
    /\ ev.op = "lastval" =>
           /\ ev.status \in {"ok", "notdefined"}
           /\ (ev.status = "notdefined") <=>
                  (hist[ev.s].seq = 0 \/ dropped[hist[ev.s].seq])

\* What a failing currval or lastval leaves alone.
C13_NotDefinedStep ==
    (ev'.op \in {"currval", "lastval"} /\ ev'.status = "notdefined") =>
        /\ page' = page /\ wal' = wal /\ last_used_seq' = last_used_seq
        /\ \A q \in DOMAIN page :
               /\ elm'[ev'.s][q].last = elm[ev'.s][q].last
               /\ elm'[ev'.s][q].last_valid = elm[ev'.s][q].last_valid
               /\ elm'[ev'.s][q].cached = elm[ev'.s][q].cached

\* C13: currval fails as not yet defined exactly when the session has made no
\* successful nextval or setval(.., true) on the sequence since its start or
\* its last ResetSequenceCaches; lastval fails exactly when the session has no
\* last-used sequence since then or that sequence was dropped; a failing
\* currval or lastval changes no currval/lastval state and no page.
C13_NotYetDefined == [](C13_NotDefinedState) /\ [][C13_NotDefinedStep]_vars

C13_Witness ==
    /\ ev.op = "lastval" /\ ev.status = "notdefined"
    /\ hist[ev.s].seq # 0 /\ dropped[hist[ev.s].seq]

C13_WitnessDiscard ==
    /\ ev.op = "currval" /\ ev.status = "notdefined"
    /\ page[ev.q].is_called /\ page[ev.q].last_value # seqform[ev.q].start

C14_WitnessLastval ==
    /\ ev.op = "lastval" /\ ev.s = 1 /\ ev.status = "ok"
    /\ hist[2].seq # 0 /\ hist[2].own[1] # hist[1].own[1]
    /\ relfilenode[1] > elm[1][1].filenumber

\* C15: when the file of a sequence was replaced since the session last
\* touched it, the session's next operation on it drops the pre-fetched values:
\* a nextval goes to the strategy, and a currval still returns the previous
\* last value.
C15_StaleStep ==
    (ev'.op \in {"nextval", "currval", "setval"}
         /\ StaleEntry(elm[ev'.s][ev'.q], relfilenode[ev'.q])) =>
        LET e0 == elm[ev'.s][ev'.q]
            e1 == elm'[ev'.s][ev'.q]
        IN  /\ e1.filenumber = relfilenode[ev'.q]
            /\ ev'.op = "nextval" => (ev'.amcall /\ ev'.status \in {"ok", "limit"})
            /\ ev'.op = "currval" =>
                   /\ e1.cached = e1.last /\ e1.last = e0.last
                   /\ e1.last_valid = e0.last_valid
                   /\ e0.last_valid => (ev'.status = "ok" /\ ev'.result = e0.last)
            /\ ev'.op = "setval" => e1.cached = e1.last

C15_DropCachedOnNewFile == [][C15_StaleStep]_vars

C15_Witness ==
    /\ ev.op = "currval" /\ ev.status = "ok" /\ ev.hadCache
    /\ elm[ev.s][ev.q].cached = elm[ev.s][ev.q].last
    /\ elm[ev.s][ev.q].filenumber = 2 /\ relfilenode[ev.q] = 2

C15_WitnessNextval ==
    /\ ev.op = "nextval" /\ ev.status = "ok" /\ ev.hadCache /\ ev.amcall
    /\ ev.result = seqform[ev.q].start /\ elm[ev.s][ev.q].filenumber = 2
    /\ OwnDefined(3 - ev.s, ev.q)

\* v lies between a and b, whichever of them is the larger.
Between(a, v, b) == (a <= v /\ v <= b) \/ (b <= v /\ v <= a)

\* A nextval served from the session cache returns a value between the result
\* and the last value of the session's most recent strategy call.
C16_ServedFromFetched ==
    (ev.op = "nextval" /\ ev.status = "ok" /\ ~ev.amcall) =>
        /\ ev.am # NoVal
        /\ Between(ev.am[1], ev.result, ev.am[2])

\* cached - last of the entry of session s is m increments, m within 0..c - 1.
CachedAhead(s, q, c) ==
    \E m \in 0..(c - 1) : elm[s][q].cached - elm[s][q].last = m * elm[s][q].increment

\* C16 as stated: in every state, for every entry, cached - last is m times the
\* entry's increment with m <= cache - 1, cache being the sequence's cache.
C16_Original ==
    /\ C16_ServedFromFetched
    /\ \A s \in DOMAIN elm, q \in DOMAIN page : CachedAhead(s, q, seqform[q].cache)

\* C16 as amended: the same with m <= c - 1, c being the cache setting in force
\* at the session's most recent strategy call on the sequence (m = 0 when it
\* made none): another session's ALTER SEQUENCE .. CACHE may lower the setting
\* while the entry still holds pre-fetched values.
C16_CacheWithinFetched ==
    /\ C16_ServedFromFetched
    /\ \A s \in DOMAIN elm, q \in DOMAIN page :
           CachedAhead(s, q, IF hist[s].am[q] = NoVal THEN 1 ELSE hist[s].am[q][3])

C16_Witness ==
    /\ ev.op = "nextval" /\ ev.status = "ok" /\ ~ev.amcall
    /\ ev.am # NoVal /\ ev.am[3] = CacheMax
    /\ ev.result # ev.am[1] /\ ev.result # ev.am[2]

C16_WitnessAltered ==
    /\ ev.op = "alter" /\ ev.arg = 1 /\ ev.s = 2
    /\ elm[1][1].cached - elm[1][1].last = (CacheMax - 1) * elm[1][1].increment
    /\ elm[1][1].increment # 0

\* C17 as stated: in parallel mode every session-cache operation fails as
\* unsafe in parallel mode.
C17_Original ==
    (ev.op \in {"nextval", "setval", "currval", "lastval"} /\ xact[ev.s].parallel) =>
        ev.status = "parallel"

\* C17 as amended: in parallel mode nextval and setval fail as unsafe in
\* parallel mode, unless the transaction is read-only and the sequence not
\* temporary, when they fail as read-only first; currval and lastval make no
\* parallel-mode check and behave as outside parallel mode.
C17_ParallelMode ==
    (ev.op \in {"nextval", "setval", "currval", "lastval"} /\ xact[ev.s].parallel) =>
        /\ ev.op \in {"nextval", "setval"} =>
               ev.status = IF ~RelationIsLocalTemp(ev.q) /\ xact[ev.s].readOnly
                           THEN "readonly" ELSE "parallel"
        /\ ev.op = "currval" =>
               IF OwnDefined(ev.s, ev.q)
               THEN ev.status = "ok" /\ ev.result = hist[ev.s].own[ev.q][1]
               ELSE ev.status = "notdefined"
        /\ ev.op = "lastval" =>
               IF hist[ev.s].seq # 0
               THEN ev.status = "ok" /\ ev.result = hist[ev.s].own[hist[ev.s].seq][1]
               ELSE ev.status = "notdefined"

C17_Witness ==
    /\ ev.op = "nextval" /\ xact[ev.s].parallel /\ ev.status = "parallel" /\ ev.hadCache

C17_WitnessCurrval ==
    /\ ev.op = "currval" /\ xact[ev.s].parallel /\ ev.status = "ok"

C17_WitnessReadOnlyFirst ==
    /\ ev.op = "setval" /\ xact[ev.s].parallel /\ ev.status = "readonly"

\* In a read-only transaction nextval and setval on a sequence that is not
\* temporary fail as read-only; on a temporary one (outside parallel mode) they
\* do not: nextval returns a value or reaches the limit, setval is refused only
\* for a value out of range.
C18_ReadOnlyState ==
    (ev.op \in {"nextval", "setval"} /\ xact[ev.s].readOnly) =>
        IF ~RelationIsLocalTemp(ev.q) THEN ev.status = "readonly"
        ELSE ~xact[ev.s].parallel =>
                 /\ ev.op = "nextval" => ev.status \in {"ok", "limit"}
                 /\ ev.op = "setval" =>
                        ev.status = IF InRange(ev.arg, seqform[ev.q]) THEN "ok"
                                    ELSE "outofrange"

\* A call that fails as read-only changes neither a page nor the session's
\* currval and lastval state.
C18_ReadOnlyStep ==
    ev'.status = "readonly" =>
        /\ page' = page /\ wal' = wal /\ last_used_seq' = last_used_seq
        /\ \A q \in DOMAIN page :
               /\ elm'[ev'.s][q].last = elm[ev'.s][q].last
               /\ elm'[ev'.s][q].last_valid = elm[ev'.s][q].last_valid

\* C18: in a read-only transaction nextval and setval on a non-temporary
\* sequence fail with the read-only error before the page or the session's
\* last value is changed, also when the session holds pre-fetched values; on
\* the session's own temporary sequence they succeed.
C18_ReadOnly == [](C18_ReadOnlyState) /\ [][C18_ReadOnlyStep]_vars

C18_Witness ==
    /\ ev.op = "nextval" /\ xact[ev.s].readOnly /\ ev.status = "readonly" /\ ev.hadCache
    /\ elm[ev.s][ev.q].last # elm[ev.s][ev.q].cached

C18_WitnessTemp ==
    /\ ev.op = "nextval" /\ xact[ev.s].readOnly /\ RelationIsLocalTemp(ev.q)
    /\ ev.status = "ok" /\ ev.amcall

\* ---------------------------------------------- claims on the snowflake AM

\* C19: on a snowflake sequence on which only next was called, no value is
\* returned twice: a value returned never equals one of the first values
\* returned, and the call taking the wrap path (counter back to 1) reads a
\* timestamp later than the clock was when it started.
C19_NoDuplicateState ==
    (snow.onlyNext /\ snow.calls > 0) =>
        /\ ~snow.dup
        /\ snow.id[1].count \in 1..SNOWFLAKE_COUNTER_MASK
        /\ snow.slept => snow.id[1].count = 1

C19_NoDuplicateStep ==
    (snow'.calls = snow.calls + 1 /\ snow'.slept) =>
        /\ SnowflakeWraps(snow.count)
        /\ snow'.now > snow.now

C19_WitnessSlept == snow.onlyNext /\ snow.slept /\ snow.calls > 1

\* C20 as stated: a run of 4097 consecutive next calls has exactly one call
\* on the wrap path.
SnowRun == SNOWFLAKE_COUNTER_MASK + 2

C20_WitnessOne == snow.calls = SnowRun /\ snow.start = 0 /\ snow.wraps = 1

\* The fields of id fit their widths: c < 2^12, m < 2^10, t < 2^41.
InFields(id) ==
    /\ id.count <= SNOWFLAKE_COUNTER_MASK
    /\ id.machine <= SNOWFLAKE_MACHINE_ID_MASK
    /\ id.time_ms[2] < TimestampTop /\ id.time_ms[3] = 0

\* id with every field cut to its width.
Truncated(id) ==
    [count   |-> id.count % (SNOWFLAKE_COUNTER_MASK + 1),
     machine |-> id.machine % (SNOWFLAKE_MACHINE_ID_MASK + 1),
     time_ms |-> <<id.time_ms[1], id.time_ms[2] % TimestampTop, 0>>]

\* C21: decoding an encoded identifier gives back the identifier when its
\* fields fit their widths, and the identifier with every field cut to its
\* width otherwise; the encoded value is never negative and carries the
\* counter in bits 0..11, the machine in bits 12..21, the timestamp above.
C21_RoundTrip ==
    /\ snow.result # NoVal =>
          /\ ~IsNegative(snow.result[1])
          /\ snow.result[1] =
                <<Truncated(snow.id[1]).count
                    + Truncated(snow.id[1]).machine * (SNOWFLAKE_COUNTER_MASK + 1),
                  snow.id[1].time_ms[1],
                  snow.id[1].time_ms[2] % TimestampTop>>
    /\ snow.decoded # NoVal =>
          /\ snow.decoded[1] = Truncated(snow.id[1])
          /\ InFields(snow.id[1]) => snow.decoded[1] = snow.id[1]

\* the largest identifier that fits is taken apart into itself
C21_Witness ==
    /\ snow.decoded # NoVal /\ InFields(snow.id[1])
    /\ snow.id[1] = [count |-> SNOWFLAKE_COUNTER_MASK, machine |-> SNOWFLAKE_MACHINE_ID_MASK,
                     time_ms |-> <<Limb - 1, TimestampTop - 1, 0>>]
    /\ snow.decoded[1] = snow.id[1]

\* fields wider than their width are cut
C21_WitnessTruncated ==
    /\ snow.decoded # NoVal
    /\ snow.id[1].count > SNOWFLAKE_COUNTER_MASK
    /\ snow.id[1].machine > SNOWFLAKE_MACHINE_ID_MASK
    /\ snow.id[1].time_ms[3] > 0
    /\ snow.decoded[1] # snow.id[1]

\* The first next on a snowflake sequence created with a stored counter of 1
\* (the defaults: ascending, start = min = 1, is_called false), machine_id 5.
FirstNextOfDefault ==
    /\ snow.calls = 1 /\ snow.onlyNext /\ snow.start = 1 /\ snow.machine_id = 5

\* C22 as stated: that call returns the counter 1.
C22_Original ==
    FirstNextOfDefault =>
        int64_to_snowflake_id(snow.result[1])
            = [time_ms |-> ToU64(snow.now), machine |-> 5, count |-> 1]

\* C22: that call, made at wall time T, returns v with
\* decompose(v) = (T in milliseconds, 5, 2): the counter stored at creation
\* is 1 and next increments it before using it.
C22_FirstNext ==
    FirstNextOfDefault =>
        /\ int64_to_snowflake_id(snow.result[1])
             = [time_ms |-> ToU64(snow.now), machine |-> 5, count |-> 2]
        /\ ~snow.slept /\ snow.is_called

C22_Witness == FirstNextOfDefault /\ snow.now = 1 /\ snow.id[1].count = 2

\* The five cross-checks on resolved parameters r (a definition and the
\* last_value that goes with it).
CrossChecks(r) ==
    /\ r.seqform.minv < r.seqform.maxv
    /\ r.seqform.start >= r.seqform.minv /\ r.seqform.start <= r.seqform.maxv
    /\ r.last_value >= r.seqform.minv /\ r.last_value <= r.seqform.maxv
    /\ r.seqform.cache >= 1
    /\ r.seqform.incby # 0

\* C23: the definition of an existing sequence satisfies the five conditions
\* and the page's last_value lies in [min, max]; a create or alter whose
\* resolved parameters violate one of them fails, and a failing create or
\* alter changes neither the catalog row, the page tuple nor the file.
C23_ValidState ==
    \A q \in DOMAIN page :
        ~dropped[q] => CrossChecks([seqform |-> seqform[q], last_value |-> page[q].last_value])

C23_CheckedStep ==
    /\ (ev'.op \in {"create", "alter"}
          /\ ~CrossChecks(ResolveParams(ev'.options[1], ev'.op = "create", seqform[ev'.q],
                                        page[ev'.q].last_value, page[ev'.q].is_called)))
         => ev'.status = "invalid"
    /\ (ev'.op \in {"create", "alter"} /\ ev'.status = "invalid")
         => UNCHANGED <<seqform, page, relfilenode, wal, dropped, pageLSN>>

C23_ParamsChecked == [](C23_ValidState) /\ [][C23_CheckedStep]_vars

\* an alter that leaves the current last_value outside the new range fails
C23_Witness ==
    /\ ev.op = "alter" /\ ev.status = "invalid"
    /\ ~ev.options[1].restart.given /\ ev.options[1].maxvalue = Opt(2)
    /\ page[1].last_value = 3 /\ seqform[1].minv = 1

C23_WitnessCreate ==
    /\ ev.op = "create" /\ ev.status = "invalid" /\ ev.options[1].cache = Opt(0)
    /\ dropped[1]

\* A routine in which one of the seven callbacks is null has just been given
\* to GetSequenceAmRoutine.
LoadOfIncomplete ==
    /\ sequenceam.op = "load"
    /\ sequenceam.handle[1].tag = "T_SequenceAmRoutine"
    /\ sequenceam.handle[1].set # SequenceWrappers

\* C24 as stated: such a load fails, in every build, and no wrapper calls a
\* null callback.
C24_Original ==
    /\ LoadOfIncomplete => sequenceam.status # "ok"
    /\ sequenceam.op \in SequenceWrappers => sequenceam.status = "ok"

\* C24: in a build with assertion checking, loading a routine in which one of
\* the seven callbacks is null fails at load time and leaves the relation's
\* routine as it was, so that no wrapper calls a null callback; in every
\* build a handler returning NULL or another node type fails with an error.
C24_LoadChecked ==
    /\ sequenceam.USE_ASSERT_CHECKING =>
          /\ LoadOfIncomplete =>
                /\ sequenceam.status = "assert"
                /\ sequenceam.rd_sequenceam # sequenceam.handle
          /\ sequenceam.rd_sequenceam # NoVal
                => sequenceam.rd_sequenceam[1].set = SequenceWrappers
          /\ sequenceam.op \in SequenceWrappers => sequenceam.status = "ok"
    /\ (sequenceam.op = "load" /\ sequenceam.handle[1].tag # "T_SequenceAmRoutine")
         => /\ sequenceam.status = "error"
            /\ sequenceam.rd_sequenceam # sequenceam.handle

\* a routine without reset is refused after a complete one was loaded
C24_Witness ==
    /\ sequenceam.USE_ASSERT_CHECKING
    /\ sequenceam.op = "load" /\ sequenceam.status = "assert"
    /\ sequenceam.handle[1].set = SequenceWrappers \ {"reset"}
    /\ sequenceam.rd_sequenceam # NoVal

C24_WitnessCall ==
    sequenceam.USE_ASSERT_CHECKING /\ sequenceam.op = "reset" /\ sequenceam.status = "ok"

\* without assertion checking the wrapper reaches the null callback
C24_WitnessNullCall ==
    ~sequenceam.USE_ASSERT_CHECKING /\ sequenceam.op = "reset" /\ sequenceam.status = "null"

\* The value the page of sequence q gives out next (ascending or descending).
NextIssued(q) ==
    IF page[q].is_called THEN page[q].last_value + seqform[q].incby ELSE page[q].last_value

\* The values session s holds pre-fetched from the current file of sequence q
\* are behind the page: no call on the page will return one of them.
Reserved(s, q) ==
    (elm[s][q].found /\ elm[s][q].cached # elm[s][q].last
        /\ elm[s][q].filenumber = relfilenode[q]) =>
        elm[s][q].cached < NextIssued(q)

\* The step is the abort of a transaction block that rewrote a sequence.
AbortOfRewrite == ev'.op = "abort" /\ xact[ev'.s].undo # {}

\* C25: when the transaction block that reset or rewrote a local sequence aborts,
\* the sequence has the file, the tuple (last_value, is_called, log_count) and
\* the definition it had before the block's first rewrite, and the values
\* sessions hold from next calls on that file stay behind its page.
C25_RestoredStep ==
    AbortOfRewrite =>
        \A u \in xact[ev'.s].undo :
            /\ page'[u.q] = u.page
            /\ relfilenode'[u.q] = u.relfilenode
            /\ seqform'[u.q] = u.seqform

C25_ReservedState == \A s \in DOMAIN elm, q \in DOMAIN page : Reserved(s, q)

C25_Transactional == [](C25_ReservedState) /\ [][C25_RestoredStep]_vars

\* An aborted reset after both sessions were given values: the other session
\* still holds a pre-fetched value, the page is the one from before the reset.
C25_Witness ==
    /\ ev.op = "abort"
    /\ page[1].is_called /\ page[1].last_value > seqform[1].start
    /\ \E s \in DOMAIN elm : s # ev.s /\ elm[s][1].last_valid /\ elm[s][1].cached > elm[s][1].last
    /\ elm[ev.s][1].last_valid /\ elm[ev.s][1].filenumber # relfilenode[1]

\* The WAL records the step adds to those the snowflake AM has written.
SnowXLogAdded == SubSeq(snow'.rel.xlog, Len(snow.rel.xlog) + 1, Len(snow'.rel.xlog))

\* C26: the snowflake AM writes WAL only in init and reset, when it fills a new
\* file, and then only for the init fork (its creation and its page); next,
\* set and change_persistence write none; and once init has run the relation
\* is unlogged whatever calls follow.
C26_UnloggedState ==
    snow.rel.op # "none" =>
        /\ snow.rel.relpersistence = RELPERSISTENCE_UNLOGGED
        /\ snow.rel.asserted
        /\ \A i \in DOMAIN snow.rel.xlog : snow.rel.xlog[i].fork = "init"

C26_XLogStep ==
    /\ Len(snow'.rel.xlog) >= Len(snow.rel.xlog)
    /\ SubSeq(snow'.rel.xlog, 1, Len(snow.rel.xlog)) = snow.rel.xlog
    /\ SnowXLogAdded # NoVal =>
          /\ snow'.rel.files = snow.rel.files + 1
          /\ snow'.rel.op \in {"init", "reset"}
          /\ \A i \in DOMAIN SnowXLogAdded : SnowXLogAdded[i].fork = "init"

C26_SnowflakeWal == [](C26_UnloggedState) /\ [][C26_XLogStep]_vars

\* A sequence created as a permanent one, after init, next, set, reset and
\* change_persistence to permanent.
C26_Witness ==
    /\ snow.rel.op = "persist" /\ snow.rel.files = 2 /\ snow.calls > 0
    /\ Len(snow.rel.xlog) = 4
    /\ snow.rel.relpersistence = RELPERSISTENCE_UNLOGGED

\* The step is a strategy next call that writes a WAL record.
NextLogs == ev'.op = "next" /\ Len(wal') = Len(wal) + 1

\* C27: the WAL record of a local next call holds (last + logc * increment,
\* is_called, log_cnt 0) for the (last, is_called, logc) the same call leaves
\* on the page, also when the call stopped fetching at the sequence's limit.
C27_LoggedTupleStep ==
    NextLogs =>
        LET q == ev'.q
        IN  /\ wal'[Len(wal')].rel = q
            /\ wal'[Len(wal')].tuple =
                  SeqTuple(page'[q].last_value + page'[q].log_cnt * seqform[q].incby, 0, TRUE)
            /\ page'[q].is_called
            /\ page'[q].last_value = ev'.last
            /\ page'[q].log_cnt >= 0

C27_LoggedTuple == [][C27_LoggedTupleStep]_vars

\* A logged call that stopped fetching early at the limit: fewer values are
\* pre-logged than SEQ_LOCAL_LOG_VALS and the record holds the limit.
C27_Witness ==
    /\ ev.op = "next" /\ ev.logit /\ ev.status = "ok"
    /\ page[1].log_cnt > 0 /\ page[1].log_cnt < SEQ_LOCAL_LOG_VALS
    /\ seqform[1].incby > 0
    /\ wal[Len(wal)].tuple.last_value = seqform[1].maxv
    /\ page[1].last_value < seqform[1].maxv

\* A logged call far from the limit.
C27_WitnessFull ==
    /\ ev.op = "next" /\ ev.logit /\ ev.status = "ok"
    /\ page[1].log_cnt = SEQ_LOCAL_LOG_VALS
    /\ wal[Len(wal)].tuple.last_value
         = page[1].last_value + SEQ_LOCAL_LOG_VALS * seqform[1].incby

\* The step is a strategy next call on a WAL-logged sequence.
LoggedNextStep ==
    nCalls' = nCalls + 1 /\ ev'.op = "next" /\ RelationNeedsWAL(relpersistence[ev'.q])

\* The number of values the call is to fetch, for the tuple it reads.
ToFetch(q) == IF page[q].is_called THEN seqform[q].cache ELSE seqform[q].cache - 1

\* The page was last logged at or before the redo point of the last checkpoint.
BeforeRedo(q) == pageLSN[q] <= RedoRecPtr

\* What C28 says of one next call on sequence q: logged when first after a
\* checkpoint, and not logged only with is_called, enough log_cnt and a page
\* logged after the redo point.
LogRule(q) ==
    /\ BeforeRedo(q) => Len(wal') = Len(wal) + 1
    /\ Len(wal') = Len(wal) =>
          page[q].is_called /\ page[q].log_cnt >= ToFetch(q) /\ ~BeforeRedo(q)

\* C28 as stated: every next call on a WAL-logged local sequence follows the
\* rule, the calls that fail at the sequence limit included.
C28_OriginalStep == LoggedNextStep => LogRule(ev'.q)

C28_Original == [][C28_OriginalStep]_vars

\* C28: on a WAL-logged local sequence a next call that returns a value writes
\* a WAL record when the page's LSN is at or before the redo point, whatever
\* log_cnt is, and writes none only when is_called is true, log_cnt covers the
\* values to fetch and the page was logged after the redo point; a call that
\* fails with the limit error writes none.
C28_LoggedStep ==
    LoggedNextStep =>
        /\ ev'.status = "ok" => LogRule(ev'.q)
        /\ ev'.status # "ok" => wal' = wal /\ page' = page

C28_FirstAfterCheckpoint == [][C28_LoggedStep]_vars

\* A next call that found enough log_cnt and was logged all the same, the
\* page's LSN being at or before the redo point.
C28_Witness ==
    /\ ev.op = "next" /\ ev.status = "ok" /\ ev.logit
    /\ ev.before.is_called /\ ev.before.log_cnt >= seqform[ev.q].cache
    /\ nCkpt > 0

\* A next call that was not logged.
C28_WitnessNoLog ==
    /\ ev.op = "next" /\ ev.status = "ok" /\ ~ev.logit
    /\ RelationNeedsWAL(relpersistence[ev.q]) /\ nCkpt > 0

\* A next call that failed at the limit after a checkpoint.
C28_WitnessLimit ==
    /\ ev.op = "next" /\ ev.status = "limit"
    /\ RelationNeedsWAL(relpersistence[ev.q]) /\ pageLSN[ev.q] <= RedoRecPtr

\* The step is a strategy set call, or a strategy next call.
SetStep == nCalls' = nCalls + 1 /\ ev'.op = "set"
AmNextStep == nCalls' = nCalls + 1 /\ ev'.op = "next"

\* The step adds exactly one WAL record, which holds the tuple the step leaves
\* on the page of sequence q.
LogsPage(q) ==
    /\ Len(wal') = Len(wal) + 1
    /\ SubSeq(wal', 1, Len(wal)) = wal
    /\ wal'[Len(wal')].rel = q
    /\ wal'[Len(wal')].tuple = page'[q]

\* What a set call does, and that set and next write no WAL for a sequence
\* that is not WAL-logged.
SetRule ==
    /\ SetStep =>
          /\ page'[ev'.q] = SeqTuple(ev'.arg, 0, ev'.iscalled)
          /\ RelationNeedsWAL(relpersistence[ev'.q]) => LogsPage(ev'.q)
    /\ (SetStep \/ AmNextStep) /\ ~RelationNeedsWAL(relpersistence[ev'.q]) => wal' = wal

\* The step is the first next call after a set call, on a WAL-logged sequence.
FirstNextAfterSet ==
    AmNextStep /\ ev.op = "set" /\ RelationNeedsWAL(relpersistence[ev'.q])

\* C29 as stated: the first next after a set always writes a WAL record, the
\* calls that fail at the sequence limit included.
C29_OriginalStep ==
    /\ SetRule
    /\ FirstNextAfterSet => Len(wal') = Len(wal) + 1

C29_Original == [][C29_OriginalStep]_vars

\* C29: a set call on a WAL-logged local sequence writes (v, is_called, log_cnt
\* 0) to the page and exactly one WAL record with that tuple; the first next
\* after it writes a WAL record when it returns a value and none when it fails
\* with the limit error; on an unlogged or temporary sequence set and next
\* write no WAL.
C29_SetStep ==
    /\ SetRule
    /\ FirstNextAfterSet /\ ev'.status = "ok" => Len(wal') = Len(wal) + 1
    /\ FirstNextAfterSet /\ ev'.status # "ok" => wal' = wal

C29_SetLogged == [][C29_SetStep]_vars

\* A logged next call that follows a set call and a checkpoint's start, on a
\* WAL-logged sequence.
C29_Witness ==
    /\ ev.op = "next" /\ ev.status = "ok" /\ ev.logit
    /\ ev.before.log_cnt = 0 /\ ev.before.is_called
    /\ ev.before.last_value # seqform[ev.q].start
    /\ Len(wal) = 3 /\ wal[2].tuple = ev.before

\* A set call on a temporary sequence.
C29_WitnessTemp ==
    /\ ev.op = "set" /\ relpersistence[ev.q] = RELPERSISTENCE_TEMP
    /\ page[ev.q] = SeqTuple(ev.arg, 0, ev.iscalled) /\ ev.before.log_cnt > 0
    /\ Len(wal) = 0

\* A next call that fails at the limit after set(MAXVALUE, true).
C29_WitnessLimit ==
    /\ ev.op = "next" /\ ev.status = "limit"
    /\ RelationNeedsWAL(relpersistence[ev.q])
    /\ wal[Len(wal)].tuple = SeqTuple(seqform[ev.q].maxv, 0, TRUE)
    /\ page[ev.q] = wal[Len(wal)].tuple /\ Len(wal) = 2

\* The page that holds the local magic word, the tuple alone at the first
\* slot, and the LSN.
ReplayedPage(tuple, lsn) == [magic |-> SEQ_LOCAL_MAGIC, items |-> <<tuple>>, lsn |-> lsn]

\* C30: replay of a local-sequence record leaves, whatever the page held, the
\* page with the local magic word and the record's tuple alone at the first
\* slot; replaying the same record again, or on a page that already reflects
\* it, leaves the same page.
C30_ReplayedState ==
    ev.op = "redo" =>
        LET rec == XlSeqLocalRec(ev.q, relfilenode[ev.q], ev.before)
        IN  /\ diskPage[ev.q] = ReplayedPage(ev.before, ev.arg)
            /\ seq_local_redo(diskPage[ev.q], rec, ev.arg) = diskPage[ev.q]
            /\ \A pg \in RedoPages : seq_local_redo(pg, rec, ev.arg) = diskPage[ev.q]

C30_AgainStep ==
    (ev'.op = "redo" /\ diskPage[ev'.q] = ReplayedPage(ev'.before, ev'.arg)) =>
        diskPage' = diskPage

C30_ReplayIdempotent == [](C30_ReplayedState) /\ [][C30_AgainStep]_vars

\* A record replayed over a page of another AM that held two items.
C30_Witness ==
    /\ ev.op = "redo"
    /\ ev.prev[1].magic = SNOWFLAKE_MAGIC /\ Len(ev.prev[1].items) = 2
    /\ ev.prev[1].lsn > ev.arg
    /\ diskPage[ev.q] = ReplayedPage(ev.before, ev.arg)

\* A record replayed a second time.
C30_WitnessAgain ==
    /\ ev.op = "redo" /\ ev.prev[1] = diskPage[ev.q]
    /\ diskPage[ev.q].items = <<SeqTuple(2, SEQ_LOCAL_LOG_VALS, TRUE)>>

\* The step is a nextval of session s on sequence q that passed the
\* transaction checks.
NextvalStepOf(s, q) ==
    ev'.op = "nextval" /\ ev'.s = s /\ ev'.q = q /\ ev'.status \in {"ok", "limit"}

\* The entry of session s for sequence q holds pre-fetched values.
HoldsFetched(s, q) == elm[s][q].found /\ elm[s][q].last # elm[s][q].cached

\* The step returns the next pre-fetched value of the entry, without a
\* strategy call or a change of the page.
ServedFromCache(s, q) ==
    /\ ~ev'.amcall /\ ev'.status = "ok"
    /\ ev'.result = elm[s][q].last + elm[s][q].increment
    /\ elm'[s][q].last = ev'.result /\ elm'[s][q].cached = elm[s][q].cached
    /\ page' = page /\ wal' = wal

\* C31 as stated: while the entry holds pre-fetched values (i of the
\* (last - result) / increment values of the strategy call are still to come)
\* a nextval of the session returns the next of them without a strategy call,
\* and the nextval that finds none makes a strategy call.
C31_OriginalStep ==
    \A s \in DOMAIN elm, q \in DOMAIN page :
        NextvalStepOf(s, q) =>
            IF HoldsFetched(s, q) THEN ServedFromCache(s, q) ELSE ev'.amcall

C31_Original == [][C31_OriginalStep]_vars

\* C31: the same as long as the sequence still has the file the session saw at
\* its strategy call; once a reset or a rewriting alter (of any session) has
\* given the sequence a new file, the session's nextval drops the pre-fetched
\* values and makes a strategy call.
C31_CachedStep ==
    \A s \in DOMAIN elm, q \in DOMAIN page :
        NextvalStepOf(s, q) =>
            IF HoldsFetched(s, q) /\ elm[s][q].filenumber = relfilenode[q]
            THEN ServedFromCache(s, q) ELSE ev'.amcall

C31_ServedInOrder == [][C31_CachedStep]_vars

\* The last of the CacheMax - 1 pre-fetched values of a strategy call is
\* served, the session alone having used the sequence.
C31_Witness ==
    /\ ev.op = "nextval" /\ ev.status = "ok" /\ ~ev.amcall
    /\ ev.am # NoVal /\ ev.am[3] = CacheMax /\ CacheMax > 2
    /\ ev.am[2] = ev.am[1] + (CacheMax - 1) * seqform[ev.q].incby
    /\ ev.result = ev.am[2]
    /\ elm[ev.s][ev.q].cached = elm[ev.s][ev.q].last

\* The nextval after the pre-fetched values makes a strategy call.
C31_WitnessNewCall ==
    /\ ev.op = "nextval" /\ ev.status = "ok" /\ ev.amcall /\ ~ev.hadCache
    /\ ev.result = seqform[ev.q].start + CacheMax * seqform[ev.q].incby
    /\ ~elm[3 - ev.s][ev.q].found /\ relfilenode[ev.q] = 1

\* Session s holds the content lock of page 0 of the current file of q.
HoldsPageLock(s, q) == <<s, relfilenode[q]>> \in lock.held

\* No buffer content lock is held by two sessions.
MutualExclusion ==
    \A g \in lock.held, h \in lock.held : g[2] = h[2] => g[1] = h[1]

\* The tuple a call in progress has read is still the tuple of the page: no
\* other call has changed the page since.
ReadStillCurrent(q) ==
    \A s \in DOMAIN lock.proc :
        lock.proc[s].tuple # NoVal => lock.proc[s].tuple[1] = page[q]

\* A session outside a strategy call holds no buffer lock.
ReleasedOnExit ==
    \A s \in DOMAIN lock.proc :
        lock.proc[s].at \in {"idle", "read"} => \A h \in lock.held : h[1] # s

\* A session waiting for the page lock eventually gets it.
WaiterAcquires ==
    \A s \in {1, 2} : (lock.proc[s].at = "read") ~> (lock.proc[s].at # "read")

\* C32 as stated: every strategy call holds the exclusive lock of page 0 from
\* its read to the end of its write, calls on one sequence do not overlap, the
\* lock is released on every exit, and a waiting session eventually gets it.
C32_HeldThroughout ==
    \A s \in DOMAIN lock.proc, q \in DOMAIN page :
        lock.proc[s].at \in {"locked", "copied", "error"} => HoldsPageLock(s, q)

C32_HeldButResetFill ==
    \A s \in DOMAIN lock.proc, q \in DOMAIN page :
        /\ lock.proc[s].at \in {"locked", "error"} => HoldsPageLock(s, q)
        /\ lock.proc[s].at = "copied" =>
              /\ lock.proc[s].op = "reset"
              /\ lock.held = {}
              /\ \A t \in DOMAIN lock.proc \ {s} : lock.proc[t].at = "idle"

C32_WitnessLimit ==
    \E s \in DOMAIN lock.proc, t \in DOMAIN lock.proc :
        /\ s # t
        /\ lock.proc[s].at = "error" /\ ev.status = "limit" /\ ev.s = s
        /\ lock.proc[t].at = "read"

\* The page read has failed on a bad magic word and the cleanup has released
\* the lock, which the waiting session then took.
C32_WitnessBadMagic ==
    \E s \in DOMAIN lock.proc, t \in DOMAIN lock.proc :
        /\ s # t
        /\ lock.proc[s].at = "idle" /\ lock.proc[t].at = "error"
        /\ ev.status = "badmagic" /\ ev.s = t /\ nCalls = 2

\* C33: after a snowflake next the page holds the counter that call wrote and
\* is_called = true, in a buffer that is dirty or already written out, so that
\* eviction and re-read of the buffer give the following next the counter the
\* call wrote.
C33_CounterKept ==
    snow.id # NoVal =>
        /\ snow.count = snow.id[1].count /\ snow.is_called
        /\ \/ snow.buf.dirty
           \/ snow.buf.disk = [count |-> snow.id[1].count, is_called |-> TRUE]

\* The buffer was evicted after a next and read again: the page holds the
\* counter from before that call.
C33_Witness ==
    /\ snow.id # NoVal /\ snow.calls = 1
    /\ snow.count # snow.id[1].count
    /\ snow.count = snow.start

\* Two next calls within one millisecond have returned the same identifier.
C33_WitnessDuplicate == snow.dup /\ snow.calls = 2 /\ snow.wraps = 0

\* The options other than OWNED BY.
RewritingOptions == DOMAIN NoOptions \ {"owned_by"}

\* The step is an ALTER SEQUENCE that passed the checks of its options.
AlterStep == ev'.op = "alter" /\ ev'.status = "ok"

\* C34: an alter with OWNED BY alone gives the sequence no new file and leaves
\* the page tuple as it is, an alter giving AS, INCREMENT, START, RESTART,
\* MAXVALUE, MINVALUE, CACHE or CYCLE installs the tuple in a new file; in both
\* cases the altering session's currval state is unchanged and its pre-fetched
\* values are dropped.
C34_AlterStep ==
    AlterStep =>
        LET o == ev'.options[1]
            s == ev'.s
            q == ev'.q
        IN  /\ (o.owned_by.given /\ \A k \in RewritingOptions : ~o[k].given)
                  => /\ relfilenode' = relfilenode
                     /\ page' = page /\ pageLSN' = pageLSN /\ wal' = wal
            /\ (\E k \in RewritingOptions : o[k].given)
                  => /\ relfilenode'[q] # relfilenode[q]
                     /\ \A t \in DOMAIN elm : elm[t][q].filenumber # relfilenode'[q]
            /\ elm'[s][q].last = elm[s][q].last
            /\ elm'[s][q].last_valid = elm[s][q].last_valid
            /\ elm'[s][q].cached = elm'[s][q].last

C34_RewriteByOption == [][C34_AlterStep]_vars

\* An alter with OWNED BY alone by a session that held pre-fetched values.
C34_Witness ==
    /\ ev.op = "alter" /\ ev.status = "ok" /\ ev.hadCache
    /\ ev.options[1].owned_by.given
    /\ relfilenode[ev.q] = 1 /\ page[ev.q] = ev.before
    /\ elm[ev.s][ev.q].last_valid /\ elm[ev.s][ev.q].cached = elm[ev.s][ev.q].last

\* An alter with AS alone by a session that held pre-fetched values.
C34_WitnessRewrite ==
    /\ ev.op = "alter" /\ ev.status = "ok" /\ ev.hadCache
    /\ ev.options[1].as.given
    /\ relfilenode[ev.q] = 2
    /\ elm[ev.s][ev.q].last_valid /\ elm[ev.s][ev.q].cached = elm[ev.s][ev.q].last

\* The WAL records written for the current file of sequence q.
RecordsOfFile(q) ==
    {i \in 1..Len(wal) : wal[i].rel = q /\ wal[i].file = relfilenode[q]}

LatestRecord(q) == wal[CHOOSE i \in RecordsOfFile(q) : \A j \in RecordsOfFile(q) : j <= i]

\* C35: for a WAL-logged ascending sequence the latest WAL record of the
\* current file carries a last_value of at least
\* page.last_value + page.log_cnt * increment, so that every value next hands
\* out without a record is covered by a record already written.
C35_Covered ==
    \A q \in DOMAIN page :
        (RelationNeedsWAL(relpersistence[q]) /\ seqform[q].incby > 0 /\ crash.phase = "up")
            => /\ RecordsOfFile(q) # {}
               /\ LatestRecord(q).tuple.last_value
                     >= page[q].last_value + page[q].log_cnt * seqform[q].incby

\* A reset that keeps the state (ALTER SEQUENCE .. START or .. AS) has logged
\* the tuple of the new file with the page's last_value, log_cnt being left
\* above 0.
C35_Witness ==
    /\ ev.op = "reset" /\ ~ev.fresh /\ ev.before.log_cnt > 0
    /\ crash.phase = "up"
    /\ RelationNeedsWAL(relpersistence[1])
    /\ page[1].log_cnt = ev.before.log_cnt
    /\ LatestRecord(1).tuple.last_value = page[1].last_value

\* After such a reset, values were handed out without a record, the server
\* crashed with the whole WAL durable, and the first next after recovery
\* returns a value handed out before the crash.
C35_WitnessReissued ==
    /\ crash.phase = "first" /\ ev.op = "next" /\ ev.status = "ok"
    /\ crash.durable # NoVal /\ ev.result <= crash.durable[1]
    /\ relpersistence[1] = RELPERSISTENCE_PERMANENT
    /\ relfilenode[1] = 2 /\ wal[1].file = 1 /\ wal[2].file = 2
    /\ \A i \in 1..Len(wal) : wal[i].tuple.last_value >= wal[1].tuple.last_value

\* The values the entry of session s holds for sequence q, pre-fetched and not
\* yet returned.
Prefetched(s, q) ==
    IF ~elm[s][q].found \/ elm[s][q].cached = elm[s][q].last THEN {}
    ELSE {v \in seqform[q].minv..seqform[q].maxv :
            /\ Between(elm[s][q].last, v, elm[s][q].cached)
            /\ v # elm[s][q].last
            /\ (v - elm[s][q].last) % (IF elm[s][q].increment > 0 THEN elm[s][q].increment
                                         ELSE -elm[s][q].increment) = 0}

\* C36: with nextval alone on a sequence without CYCLE, no value is returned
\* twice.
C36_NotReturnedBefore ==
    \A s \in DOMAIN elm, q \in DOMAIN page :
        (NextvalStepOf(s, q) /\ ev'.status = "ok") => <<q, ev'.result>> \notin returned

\* C36: the values pre-fetched by different sessions are disjoint, and none of
\* them has been returned to any session.
C36_Disjoint ==
    \A q \in DOMAIN page, s \in DOMAIN elm :
        /\ \A t \in DOMAIN elm \ {s} : Prefetched(s, q) \cap Prefetched(t, q) = {}
        /\ \A v \in Prefetched(s, q) : <<q, v>> \notin returned

C36_NoValueTwice == [](C36_Disjoint) /\ [][C36_NotReturnedBefore]_vars

\* Three sessions hold pre-fetched values at once and one of them has just
\* been served from its cache.
C36_Witness ==
    /\ \A s \in DOMAIN elm : Prefetched(s, 1) # {}
    /\ ev.op = "nextval" /\ ev.status = "ok" /\ ~ev.amcall
    /\ Cardinality(returned) = 4

\* C37: in every session state an entry with last # cached is valid and has a
\* nonzero increment (the assertions of nextval's cache branch), and the
\* last-used pointer is unset or refers to an existing valid entry (the
\* assertion of lastval).
C37_AssertionsHold ==
    \A s \in DOMAIN elm :
        /\ \A q \in DOMAIN page :
              (elm[s][q].found /\ elm[s][q].last # elm[s][q].cached)
                  => elm[s][q].last_valid /\ elm[s][q].increment # 0
        /\ last_used_seq[s] # 0
              => /\ last_used_seq[s] \in DOMAIN page
                 /\ elm[s][last_used_seq[s]].found
                 /\ elm[s][last_used_seq[s]].last_valid

\* lastval answers from an entry that holds pre-fetched values, the session
\* having an entry for the other sequence that is not valid.
C37_Witness ==
    /\ ev.op = "lastval" /\ ev.status = "ok" /\ ev.q # 0
    /\ elm[ev.s][ev.q].last # elm[ev.s][ev.q].cached
    /\ elm[ev.s][3 - ev.q].found /\ ~elm[ev.s][3 - ev.q].last_valid

\* A setval with is_called false on an entry that was never valid.
C37_WitnessSetUncalled ==
    /\ ev.op = "setval" /\ ev.status = "ok" /\ ~ev.iscalled
    /\ elm[ev.s][ev.q].found /\ ~elm[ev.s][ev.q].last_valid
    /\ elm[ev.s][ev.q].last = elm[ev.s][ev.q].cached
    /\ last_used_seq[ev.s] = 3 - ev.q

\* C38: after any calls of init, next, set, reset and change_persistence on a
\* local sequence, with any cache and any limits, the page's log_cnt is between
\* 0 and SEQ_LOCAL_LOG_VALS; the value next writes there is the one its
\* assertion log >= 0 tests.
C38_LogCntInRange ==
    \A q \in DOMAIN page : page[q].log_cnt >= 0 /\ page[q].log_cnt <= SEQ_LOCAL_LOG_VALS

\* A next call that emits no record uses up exactly what was pre-logged.
C38_Witness ==
    /\ ev.op = "next" /\ ev.status = "ok" /\ ev.before.is_called
    /\ pageLSN[1] > RedoRecPtr
    /\ ev.before.log_cnt = seqform[1].cache /\ page[1].log_cnt = 0

\* A next call after a checkpoint fetches SEQ_LOCAL_LOG_VALS more although
\* enough were pre-logged.
C38_WitnessCheckpoint ==
    /\ ev.op = "next" /\ ev.status = "ok" /\ ev.before.is_called
    /\ ev.before.log_cnt >= seqform[1].cache /\ ev.logit
    /\ page[1].log_cnt = SEQ_LOCAL_LOG_VALS

\* A next call that pre-fetches more than SEQ_LOCAL_LOG_VALS values and leaves
\* SEQ_LOCAL_LOG_VALS of them pre-logged.
C38_WitnessFull ==
    /\ ev.op = "next" /\ ev.status = "ok"
    /\ seqform[1].cache > SEQ_LOCAL_LOG_VALS /\ page[1].log_cnt = SEQ_LOCAL_LOG_VALS

\* A next call that stops at the limit with values still to fetch.
C38_WitnessLimit ==
    /\ ev.op = "next" /\ ev.status = "ok" /\ seqform[1].maxv = SmallMax
    /\ ~seqform[1].cycle /\ seqform[1].cache > 1
    /\ ev.before.is_called /\ page[1].log_cnt = 0

\* A reset that keeps the state leaves log_cnt as a next call wrote it.
C38_WitnessResetKeeps ==
    /\ ev.op = "reset" /\ ~ev.fresh /\ page[1].log_cnt > 0

WithinLimits(v, f) == v >= f.minv /\ v <= f.maxv

\* C39: for every nonzero increment, every min < max of the integer type,
\* its largest and smallest value and increments larger than max - min
\* included, and every last_value in [min, max], no sum or difference of the
\* fetch loop of local next leaves the integer type, and the value returned,
\* the last_value written to the page and the one written to the WAL lie in
\* [min, max].
C39_NoOverflow ==
    [][\A q \in DOMAIN page :
          (AmNextStep /\ ev'.q = q) =>
              /\ \A x \in LoopOperands(page[q], pageLSN[q], RedoRecPtr, seqform[q]) :
                    FitsInt64(x)
              /\ ev'.status = "ok" =>
                    /\ WithinLimits(ev'.result, seqform[q])
                    /\ WithinLimits(page'[q].last_value, seqform[q])
                    /\ ev'.logit => WithinLimits(wal'[Len(wal')].tuple.last_value,
                                                 seqform[q])]_vars

\* next on a sequence that spans the whole integer type, by the largest
\* increment, from a last_value that set has put on the page.
C39_Witness ==
    /\ ev.op = "next" /\ ev.status = "ok" /\ ev.logit
    /\ seqform[1].minv = MinInt64 /\ seqform[1].maxv = MaxInt64
    /\ seqform[1].incby = MaxInt64 /\ ev.before.is_called
    /\ ev.before.last_value = 0 /\ ev.result = MaxInt64

\* A descending next by the smallest integer with min >= 0: the sequence
\* cycles to max.
C39_WitnessDescending ==
    /\ ev.op = "next" /\ ev.status = "ok" /\ seqform[1].incby = MinInt64
    /\ seqform[1].minv >= 0 /\ ev.before.is_called /\ ev.result = seqform[1].maxv

\* An ascending next below zero whose increment is larger than max - min.
C39_WitnessNegative ==
    /\ ev.op = "next" /\ ev.status = "limit" /\ seqform[1].maxv < 0
    /\ seqform[1].incby > seqform[1].maxv - seqform[1].minv

\* The step is a successful setval(q, v, iscalled) of session s.
SetvalStepOf(s, q) ==
    ev'.op = "setval" /\ ev'.s = s /\ ev'.q = q /\ ev'.status = "ok"

\* What a strategy next call returns for the tuple on the page, short of the
\* limit: last_value when it is not called, else the value after it.
ReflectsPage(q) ==
    ev'.result = IF page[q].is_called THEN page[q].last_value + seqform[q].incby
                 ELSE page[q].last_value

\* C40: a setval of one session leaves the sequence's file and every other
\* session's entry as they were and puts (v, is_called) on the page; another
\* session's nextval that finds pre-fetched values in its entry returns the
\* next of them and leaves the page alone, whatever setval put there, and its
\* nextval that finds none makes a strategy call whose result follows from the
\* page.
C40_SetvalStep ==
    \A s \in DOMAIN elm, q \in DOMAIN page :
        /\ SetvalStepOf(s, q) =>
              /\ relfilenode' = relfilenode
              /\ \A o \in DOMAIN elm \ {s} : elm'[o] = elm[o]
              /\ page'[q] = SeqTuple(ev'.arg, 0, ev'.iscalled)
        /\ NextvalStepOf(s, q) =>
              IF HoldsFetched(s, q)
              THEN ServedFromCache(s, q)
              ELSE ev'.amcall /\ (ev'.status = "ok" => ReflectsPage(q))

C40_CacheSurvivesSetval == [][C40_SetvalStep]_vars

\* Session 1 is served a pre-fetched value after session 2 has set the
\* sequence: the page holds the tuple of setval(v, false) and the value
\* returned is not v.
C40_Witness ==
    /\ ev.op = "nextval" /\ ev.s = 1 /\ ev.status = "ok" /\ ~ev.amcall
    /\ ~page[1].is_called /\ ev.result # page[1].last_value

\* Session 1 was served 1, 2 and 3 from one strategy call, session 2 having
\* called setval(2, false) meanwhile and nothing else; the next nextval of
\* session 1 makes a strategy call and returns 2 again.
C40_WitnessReflected ==
    /\ ev.op = "nextval" /\ ev.s = 1 /\ ev.status = "ok" /\ ev.amcall
    /\ seqform[1].incby = 1 /\ ev.result = 2
    /\ returned = {<<1, 1>>, <<1, 2>>, <<1, 3>>}
    /\ elm[2][1].found /\ ~elm[2][1].last_valid

\* A pre-fetched value served to session 1 that session 2 was handed after
\* its setval.
C40_WitnessRepeated ==
    /\ ev.op = "nextval" /\ ev.s = 1 /\ ev.status = "ok" /\ ~ev.amcall
    /\ hist[2].val[1] = <<ev.result>> /\ hist[2].am[1] # NoVal

====
